---- MODULE Spec2Model ----
(***************************************************************************)
(* Model of the sui-echo content-attestation verification service: the     *)
(* three POST /verify handlers (the attestation route, the nautilus        *)
(* worker and the on-chain web route), their input sanitisation, the       *)
(* Walrus fetch, the content checks and the signed-message framing.        *)
(***************************************************************************)
EXTENDS Integers, Sequences, FiniteSets, TLC

(***************************************************************************)
(* Bounds of the model.                                                    *)
(***************************************************************************)
MaxBlobLen == 2

MaxHandoutLen == 2

MaxContentLen == 11

MaxFrameLen == 2

MaxFrameBytes == 2
NumRequests == 2
MaxIdLen == 2
MaxTicks == 2
MaxHandouts == 1
MaxSponsorships == 2
MaxLogins == 2

(***************************************************************************)
(* Characters.  A JavaScript string is a sequence of one-character         *)
(* strings.                                                                *)
(***************************************************************************)
DigitSeq == <<"0", "1", "2", "3", "4", "5", "6", "7", "8", "9">>

UpperSeq == <<"A", "B", "C", "D", "E", "F", "G", "H", "I", "J", "K", "L", "M",
              "N", "O", "P", "Q", "R", "S", "T", "U", "V", "W", "X", "Y", "Z">>

LowerSeq == <<"a", "b", "c", "d", "e", "f", "g", "h", "i", "j", "k", "l", "m",
              "n", "o", "p", "q", "r", "s", "t", "u", "v", "w", "x", "y", "z">>

Range(s) == {s[i] : i \in 1..Len(s)}

IndexOf(s, c) == CHOOSE i \in 1..Len(s) : s[i] = c

AlnumChars == Range(DigitSeq) \cup Range(UpperSeq) \cup Range(LowerSeq)

\* The UTF-8 byte of an ASCII character (Buffer.from(s, 'utf8')).
CharCode(c) ==
    IF c \in Range(DigitSeq) THEN 47 + IndexOf(DigitSeq, c)
    ELSE IF c \in Range(UpperSeq) THEN 64 + IndexOf(UpperSeq, c)
    ELSE IF c \in Range(LowerSeq) THEN 96 + IndexOf(LowerSeq, c)
    ELSE IF c = "_" THEN 95
    ELSE IF c = "-" THEN 45
    ELSE IF c = "/" THEN 47
    ELSE IF c = " " THEN 32
    ELSE IF c = "!" THEN 33
    ELSE 63

\* All strings over the alphabet chars of length lo..hi.
StringsOver(chars, lo, hi) == UNION {[1..n -> chars] : n \in lo..hi}

\* n copies of the character c.
Rep(c, n) == [i \in 1..n |-> c]

\* s.replace(/[^...]/g, ''): the characters of s that are in keep, in order.
RECURSIVE KeepChars(_, _)
KeepChars(s, keep) ==
    IF s = <<>> THEN <<>>
    ELSE IF Head(s) \in keep THEN <<Head(s)>> \o KeepChars(Tail(s), keep)
    ELSE KeepChars(Tail(s), keep)

(***************************************************************************)
(* JavaScript values of the request body fields.                           *)
(***************************************************************************)
Undefined == [t |-> "undefined", s |-> <<>>]

JsNumber == [t |-> "number", s |-> <<>>]

JsString(s) == [t |-> "string", s |-> s]

\* !v || typeof v !== 'string'
MissingOrInvalid(v) == v.t # "string" \/ v.s = <<>>

\* JavaScript truthiness of a field value (a non-zero number is truthy).
Truthy(v) == IF v.t = "string" THEN v.s # <<>> ELSE v.t = "number"

(***************************************************************************)
(* Input sanitisation and the framing of the signed message.               *)
(***************************************************************************)
\* blobId.replace(/[^a-zA-Z0-9_-]/g, '')
SanitizeBlobId(s) == KeepChars(s, AlnumChars \cup {"_", "-"})

\* handoutId.replace(/[^a-zA-Z0-9x]/g, '')
SanitizeHandoutId(s) == KeepChars(s, AlnumChars \cup {"x"})

\* s.replace('0x', ''): the first occurrence of "0x" is removed.
RECURSIVE RemoveFirst0x(_)
RemoveFirst0x(s) ==
    IF Len(s) < 2 THEN s
    ELSE IF s[1] = "0" /\ s[2] = "x" THEN SubSeq(s, 3, Len(s))
    ELSE <<Head(s)>> \o RemoveFirst0x(Tail(s))

\* The value of a hexadecimal digit, -1 for any other character.
HexVal(c) ==
    IF c \in Range(DigitSeq) THEN IndexOf(DigitSeq, c) - 1
    ELSE IF c \in {"A", "B", "C", "D", "E", "F"} THEN 9 + IndexOf(UpperSeq, c)
    ELSE IF c \in {"a", "b", "c", "d", "e", "f"} THEN 9 + IndexOf(LowerSeq, c)
    ELSE -1

\* Buffer.from(s, 'hex'): pairs of hex digits, cut at the first pair that is
\* not hexadecimal; a trailing single digit is dropped.
RECURSIVE HexDecode(_)
HexDecode(s) ==
    IF Len(s) < 2 THEN <<>>
    ELSE IF HexVal(s[1]) < 0 \/ HexVal(s[2]) < 0 THEN <<>>
    ELSE <<16 * HexVal(s[1]) + HexVal(s[2])>> \o HexDecode(SubSeq(s, 3, Len(s)))

\* Buffer.from(s, 'utf8') of an ASCII string.
Utf8Bytes(s) == [i \in 1..Len(s) |-> CharCode(s[i])]

\* Buffer.concat([handoutIdBytes, blobIdBytes])
SignedMessage(sanHandoutId, sanBlobId) ==
    HexDecode(RemoveFirst0x(sanHandoutId)) \o Utf8Bytes(sanBlobId)

(***************************************************************************)
(* Canonical text, digest and the verification checks.                     *)
(***************************************************************************)
HexChars == <<"0", "1", "2", "3", "4", "5", "6", "7", "8", "9",
              "a", "b", "c", "d", "e", "f">>

RECURSIVE HashFold(_, _)
HashFold(h, s) ==
    IF s = <<>> THEN h ELSE HashFold((h * 31 + CharCode(Head(s))) % 256, Tail(s))

\* crypto.createHash('sha256').update(text).digest('hex'), with the digest
\* narrowed to one byte: a deterministic function of the text alone.
ContentHash(text) ==
    LET h == HashFold(7, text)
    IN  <<HexChars[(h \div 16) + 1], HexChars[(h % 16) + 1]>>

RECURSIVE TrimLeft(_)
TrimLeft(s) == IF s # <<>> /\ Head(s) = " " THEN TrimLeft(Tail(s)) ELSE s

RECURSIVE TrimRight(_)
TrimRight(s) ==
    IF s # <<>> /\ s[Len(s)] = " " THEN TrimRight(SubSeq(s, 1, Len(s) - 1)) ELSE s

\* Whether JSON.parse accepts the text: here, a number literal of digits 1-9
\* with surrounding white space.
IsJson(text) ==
    LET t == TrimRight(TrimLeft(text))
    IN  t # <<>> /\ \A i \in 1..Len(t) : t[i] \in (Range(DigitSeq) \ {"0"})

\* axios parses a JSON body; the worker then takes
\* typeof data === 'string' ? data : JSON.stringify(data).
WorkerText(body) == IF IsJson(body) THEN TrimRight(TrimLeft(body)) ELSE body

\* await response.text()
FetchText(body) == body

MinContentLength == 10

\* Mutation: the bound is exclusive.
MinLengthCheckExclusive(text) == Len(text) > MinContentLength

MinLengthCheck(text) == Len(text) >= MinContentLength

\* expectedHash ? contentHash === expectedHash : true
HashCheck(expectedHash, hash) ==
    IF Truthy(expectedHash) THEN expectedHash = JsString(hash) ELSE TRUE

ContentIntegrity == TRUE

\* Mutation: the digest is only compared once the length check has passed.
VerificationResultsShortCircuit(text, expectedHash) ==
    [minLengthCheck   |-> MinLengthCheck(text),
     hashCheck        |-> MinLengthCheck(text)
                          /\ HashCheck(expectedHash, ContentHash(text)),
     contentIntegrity |-> ContentIntegrity]

VerificationResults(text, expectedHash) ==
    [minLengthCheck   |-> MinLengthCheck(text),
     hashCheck        |-> HashCheck(expectedHash, ContentHash(text)),
     contentIntegrity |-> ContentIntegrity]

\* Mutation: the length check is left out of the overall verdict.
IsVerifiedIgnoringLength(results) == results.hashCheck /\ results.contentIntegrity

\* Object.values(verificationResults).every(v => v)
IsVerified(results) == \A k \in DOMAIN results : results[k]

(***************************************************************************)
(* Keys and signatures: Ed25519 is deterministic, and a signature verifies *)
(* exactly for the message and the key pair that made it.                  *)
(***************************************************************************)
PublicKey(key) == <<"pub", key>>

Sign(key, message) == [signer |-> PublicKey(key), over |-> message]

(***************************************************************************)
(* State.                                                                  *)
(***************************************************************************)
VARIABLES
    handler,              \* which POST handler serves: "attest", "worker", "route"
    ADMIN_SECRET_KEY,     \* process.env.ADMIN_SECRET_KEY ("" when not set)
    PACKAGE_ID,           \* process.env.PACKAGE_ID ("" when not set)
    pc,                   \* where the handler stands
    req,                  \* the request body
    sanitizedBlobId,
    sanitizedHandoutId,
    fetches,              \* requests sent to the Walrus aggregator
    fetchedId,            \* the blob id of the aggregator URL
    textContent,
    contentHash,
    verificationResults,
    message,
    upstream,             \* what the aggregator did with the fetch
    res,                  \* the HTTP response
    stages,               \* the pipeline stages entered, in order
    frame,                \* the framing of two (handoutId, blobId) pairs
    health,               \* the response of GET /health
    det,                  \* two evaluations of the same content
    conc,                 \* the verify requests in flight, one per slot
    scope,                \* the bindings of the handler's local constants
    rateLimitMap,         \* the worker's rateLimitMap
    now,                  \* Date.now()
    up,                   \* the server process: "starting", "listening"
    sent,                 \* the responses sent so far, oldest first
    st,                   \* a GET of the status endpoint
    rl,                   \* what the rate limiter was asked and answered
    chain,                \* the objects of the Move module on chain
    registry,             \* the CourseRepRegistry
    zk                    \* the browser's storage and zkLogin session

vars == <<handler, ADMIN_SECRET_KEY, PACKAGE_ID, pc, req, sanitizedBlobId,
          sanitizedHandoutId, fetches, fetchedId, textContent, contentHash,
          verificationResults, message, upstream, res, stages, frame,
          health, det, conc, scope, rateLimitMap, now, up, sent, st, rl,
          chain, registry, zk>>

\* The variables of the other specifications, which the pipeline leaves alone.
concurrent == <<conc, scope, rateLimitMap, now>>

more == <<up, sent, st, rl, chain, registry, zk>>

aux == <<frame, health, det, concurrent, more>>

config == <<handler, ADMIN_SECRET_KEY, PACKAGE_ID>>

locals == <<sanitizedBlobId, sanitizedHandoutId, fetches, fetchedId, textContent,
            contentHash, verificationResults, message, upstream>>

Handlers == {"attest", "worker", "route"}

\* "k1" is a well-formed secret key, "bad" one that fromSecretKey rejects.
SecretKeys == {"", "k1", "bad"}

PackageIds == {"", "0x...", "0xpkg"}

NoRequest == [bodyOk |-> FALSE, blobId |-> Undefined, handoutId |-> Undefined,
              expectedHash |-> Undefined]

NoResponse == [status |-> 0, body |-> [none |-> TRUE]]

NoResults == [none |-> TRUE]

\* The value of a variable that the specification at hand does not use.
NotInUse == [stage |-> "off"]

NoMessage == <<-1>>

(***************************************************************************)
(* Inputs.                                                                 *)
(***************************************************************************)
BlobIdValues ==
    {Undefined, JsNumber} \cup
    {JsString(s) : s \in StringsOver({"B", "/"}, 0, MaxBlobLen)}

HandoutIdValues ==
    {Undefined, JsNumber} \cup
    {JsString(s) : s \in StringsOver({"A", "-"}, 0, MaxHandoutLen)}

\* What the aggregator may hold for a blob: plain text, and digits after a
\* blank (a JSON number to axios).
Bodies ==
    {Rep("h", n) : n \in 0..MaxContentLen} \cup
    {<<" ">> \o Rep("1", n - 1) : n \in 1..MaxContentLen}

\* A body over the 10 MB that the worker allows (maxContentLength): the
\* bodies of up to MaxContentLen characters stand for those within it.
Oversized == Rep("h", MaxContentLen + 1)

ExpectedHashValues ==
    {Undefined, JsString(<<>>),
     JsString(ContentHash(Rep("h", MaxContentLen))),
     JsString(ContentHash(Rep("h", 3)))}

(***************************************************************************)
(* Responses and thrown errors.                                            *)
(***************************************************************************)
Json(status, body) == [status |-> status, body |-> body]

\* A thrown error: its name, its code, the status of err.response (0 when
\* there is none) and whether its message includes 'timeout'.
Err(name, code, respStatus, timeoutMsg) ==
    [name |-> name, code |-> code, respStatus |-> respStatus,
     timeoutMsg |-> timeoutMsg]

\* How a fetch of the aggregator can end, besides a 2xx answer with a body.
\* "tooLarge" is a body over maxContentLength, which only axios refuses;
\* fetch() and response.text() have no ceiling and read such a body whole.
FetchFailures == {"notFound", "status5xx", "timeout", "transport"}

AxiosFailures == FetchFailures \cup {"tooLarge"}

\* What fetch() or response.text() throws: the AbortSignal.timeout fires
\* (a TimeoutError), or the connection fails (a TypeError).
FetchApiError(u) ==
    IF u = "timeout" THEN Err("TimeoutError", "", 0, TRUE)
    ELSE Err("TypeError", "", 0, FALSE)

\* What axios.get() throws: 'timeout of 30000ms exceeded' (ECONNABORTED),
\* 'maxContentLength size of 10485760 exceeded', a connection failure, or
\* 'Request failed with status code N' with err.response set.
AxiosError(u) ==
    IF u = "timeout" THEN Err("AxiosError", "ECONNABORTED", 0, TRUE)
    ELSE IF u = "tooLarge" THEN Err("AxiosError", "ERR_BAD_RESPONSE", 0, FALSE)
    ELSE IF u = "notFound" THEN Err("AxiosError", "ERR_BAD_REQUEST", 404, FALSE)
    ELSE IF u = "status5xx" THEN Err("AxiosError", "ERR_BAD_RESPONSE", 500, FALSE)
    ELSE Err("AxiosError", "ECONNREFUSED", 0, FALSE)

\* Ed25519Keypair.fromSecretKey on a malformed key.
KeyError == Err("Error", "", 0, FALSE)

\* client.signAndExecuteTransaction rejecting.
RpcErrors == {Err("Error", "", 0, FALSE), Err("Error", "", 0, TRUE)}

\* The catch block of the fetch() handlers.
CatchFetchApi(err) ==
    IF err.name = "TimeoutError" \/ err.timeoutMsg
    THEN Json(504, [error |-> "Walrus fetch timeout"])
    ELSE Json(500, [error |-> "TEE verification failed", details |-> err.name])

\* Mutation: the worker's catch block without the 404 test.
CatchWorkerWithout404(err) ==
    IF err.code = "ECONNABORTED" \/ err.timeoutMsg
    THEN Json(504, [error |-> "Walrus fetch timeout"])
    ELSE Json(500, [error |-> "TEE verification failed", details |-> err.name])

\* The catch block of the worker.
CatchWorker(err) ==
    IF err.code = "ECONNABORTED" \/ err.timeoutMsg
    THEN Json(504, [error |-> "Walrus fetch timeout"])
    ELSE IF err.respStatus = 404
    THEN Json(404, [error |-> "Content not found in Walrus"])
    ELSE Json(500, [error |-> "TEE verification failed", details |-> err.name])

Catch(err) == IF handler = "worker" THEN CatchWorker(err) ELSE CatchFetchApi(err)

(***************************************************************************)
(* The POST /verify handler, one action per stretch between two awaits.    *)
(***************************************************************************)
Requests ==
    {NoRequest} \cup
    {[bodyOk |-> TRUE, blobId |-> b, handoutId |-> h, expectedHash |-> e] :
        b \in BlobIdValues, h \in HandoutIdValues, e \in ExpectedHashValues}

Respond(r) == res' = r /\ pc' = "done"

\* A body that is not a JSON object: request.json() or the destructuring throws
\* inside the try block; in the worker express.json() hands the error to the
\* error-handling middleware.
BodyError ==
    IF handler = "worker"
    THEN Json(500, [error |-> "Internal server error"])
    ELSE CatchFetchApi(Err("SyntaxError", "", 0, FALSE))

\* The id put in the aggregator URL.
FetchId(sanBlobId) == sanBlobId

\* Mutation: the handoutId test is left out.
ValidateBlobIdOnly(r) ==
    IF MissingOrInvalid(r.blobId)
    THEN Json(400, [error |-> "Missing or invalid blobId"])
    ELSE NoResponse

\* The input validation: the 400 response, or NoResponse for a valid request.
Validate(r) ==
    IF MissingOrInvalid(r.blobId)
    THEN Json(400, [error |-> "Missing or invalid blobId"])
    ELSE IF MissingOrInvalid(r.handoutId)
    THEN Json(400, [error |-> "Missing or invalid handoutId"])
    ELSE NoResponse

Receive(r) ==
    /\ pc = "idle"
    /\ req' = r
    /\ IF ~r.bodyOk
       THEN Respond(BodyError) /\ UNCHANGED <<locals, stages>>
       ELSE IF Validate(r) # NoResponse
       THEN Respond(Validate(r)) /\ UNCHANGED <<locals, stages>>
       ELSE /\ sanitizedBlobId' = SanitizeBlobId(r.blobId.s)
            /\ sanitizedHandoutId' = SanitizeHandoutId(r.handoutId.s)
            /\ fetchedId' = FetchId(SanitizeBlobId(r.blobId.s))
            /\ fetches' = fetches + 1
            /\ stages' = <<"Fetching">>
            /\ pc' = "fetching"
            /\ UNCHANGED <<textContent, contentHash, verificationResults,
                           message, upstream, res>>
    /\ UNCHANGED <<config, aux>>

PackageConfigured == PACKAGE_ID # "" /\ PACKAGE_ID # "0x..."

\* Mutation: the degraded answer carries a stub attestation.
VerifiedLocallyWithStub(hash, results, why) ==
    Json(200, [status |-> "verified_locally", message |-> why,
               contentHash |-> hash, verificationResults |-> results,
               attestation |-> [type |-> "NONE"]])

\* Mutation: without a key the passing request is answered as an error.
VerifiedLocallyKeyRequired(hash, results, why) ==
    Json(500, [error |-> "TEE verification failed", details |-> why])

VerifiedLocally(hash, results, why) ==
    Json(200, [status |-> "verified_locally", message |-> why,
               contentHash |-> hash, verificationResults |-> results])

\* Mutation: the rejection echoes the digest the caller expected.
RejectionEchoingExpected(hash, results) ==
    Json(422, [error |-> "Verification failed", details |-> results,
               contentHash |-> req.expectedHash.s])

Rejection(hash, results) ==
    Json(422, [error |-> "Verification failed", details |-> results,
               contentHash |-> hash])

\* Steps 2 and 3 on the text of the blob, up to the next await.
Evaluate(text, entered) ==
    LET hash    == ContentHash(text)
        results == VerificationResults(text, req.expectedHash)
    IN  /\ textContent' = text
        /\ contentHash' = hash
        /\ verificationResults' = results
        /\ IF ~IsVerified(results)
           THEN /\ Respond(Rejection(hash, results))
                /\ stages' = entered \o <<"Evaluating">>
                /\ UNCHANGED message
           ELSE /\ stages' = entered \o <<"Evaluating", "Signing">>
                /\ IF ADMIN_SECRET_KEY = ""
                   THEN /\ Respond(VerifiedLocally(hash, results, "no key"))
                        /\ UNCHANGED message
                   ELSE IF handler # "attest" /\ ~PackageConfigured
                   THEN /\ Respond(VerifiedLocally(hash, results, "no package"))
                        /\ UNCHANGED message
                   ELSE IF ADMIN_SECRET_KEY = "bad"
                   THEN Respond(Catch(KeyError)) /\ UNCHANGED message
                   ELSE IF handler = "attest"
                   THEN /\ message' = SignedMessage(sanitizedHandoutId,
                                                    sanitizedBlobId)
                        /\ pc' = "signing"
                        /\ UNCHANGED res
                   ELSE /\ pc' = "submitting"
                        /\ UNCHANGED <<message, res>>

\* Mutation: a failed fetch is tried once more before it is answered.
FetchFailsWithRetry(u, r) ==
    /\ upstream' = u
    /\ IF fetches < 2
       THEN /\ fetches' = fetches + 1
            /\ pc' = "fetching"
            /\ stages' = <<"Fetching">>
            /\ UNCHANGED res
       ELSE Respond(r) /\ UNCHANGED <<fetches, stages>>
    /\ UNCHANGED <<textContent, contentHash, verificationResults, message>>

FetchFails(u, r) ==
    /\ upstream' = u
    /\ Respond(r)
    /\ UNCHANGED <<textContent, contentHash, verificationResults, message,
                   stages, fetches>>

NotFound == Json(404, [error |-> "Content not found in Walrus"])

\* if (!response.ok): 404 is answered at once, any other status is thrown.
NotOk(u) ==
    IF u = "notFound" THEN NotFound ELSE Catch(Err("Error", "", 0, FALSE))

\* The aggregator answers the fetch() of the attestation route and the web route.
FetchReturns ==
    /\ pc = "fetching"
    /\ handler # "worker"
    /\ \/ \E u \in {"timeout", "transport"} : FetchFails(u, Catch(FetchApiError(u)))
       \/ \E u \in {"notFound", "status5xx"} : FetchFails(u, NotOk(u))
       \/ /\ pc' = "reading"
          /\ stages' = stages \o <<"Canonicalizing">>
          /\ UNCHANGED <<textContent, contentHash, verificationResults, message,
                         upstream, res, fetches>>
    /\ UNCHANGED <<config, req, sanitizedBlobId, sanitizedHandoutId,
                   fetchedId, aux>>

\* await response.text() ends.
TextReturns ==
    /\ pc = "reading"
    /\ \/ \E u \in {"timeout", "transport"} : FetchFails(u, Catch(FetchApiError(u)))
       \/ \E body \in Bodies \cup {Oversized} :
            /\ upstream' = "ok"
            /\ Evaluate(FetchText(body), stages)
            /\ UNCHANGED fetches
    /\ UNCHANGED <<config, req, sanitizedBlobId, sanitizedHandoutId,
                   fetchedId, aux>>

\* axios.get() of the worker ends.
AxiosReturns ==
    /\ pc = "fetching"
    /\ handler = "worker"
    /\ \/ \E u \in AxiosFailures : FetchFails(u, Catch(AxiosError(u)))
       \/ \E body \in Bodies :
            /\ upstream' = "ok"
            /\ Evaluate(WorkerText(body), stages \o <<"Canonicalizing">>)
            /\ UNCHANGED fetches
    /\ UNCHANGED <<config, req, sanitizedBlobId, sanitizedHandoutId,
                   fetchedId, aux>>

Attestation ==
    [signature |-> Sign(ADMIN_SECRET_KEY, message),
     publicKey |-> PublicKey(ADMIN_SECRET_KEY),
     message   |-> message,
     handoutId |-> sanitizedHandoutId,
     blobId    |-> sanitizedBlobId]

\* await keypair.sign(message) ends.
SignReturns ==
    /\ pc = "signing"
    /\ Respond(Json(200, [status |-> "attestation_ready",
                          contentHash |-> contentHash,
                          verificationResults |-> verificationResults,
                          attestation |-> Attestation]))
    /\ UNCHANGED <<config, req, locals, stages, aux>>

OnchainAttestation ==
    [type |-> "SUI_ECHO_TEE_VERIFICATION_V1",
     verifier |-> <<"address", PublicKey(ADMIN_SECRET_KEY)>>]

\* Mutation: the failed submission is answered with the attestation attached.
TransactionFailedWithAttestation ==
    Json(500, [status |-> "transaction_failed",
               error |-> "Transaction execution failed", digest |-> "tx",
               attestation |-> [type |-> "SUI_ECHO_TEE_VERIFICATION_V1"]])

TransactionFailed ==
    Json(500, [status |-> "transaction_failed",
               error |-> "Transaction execution failed", digest |-> "tx"])

\* await client.signAndExecuteTransaction(...) ends.
SubmitReturns ==
    /\ pc = "submitting"
    /\ \/ \E err \in RpcErrors : Respond(Catch(err))
       \/ \E status \in {"success", "failure"} :
            IF status # "success"
            THEN Respond(TransactionFailed)
            ELSE Respond(Json(200, [status |-> "verified_onchain",
                                    digest |-> "tx",
                                    contentHash |-> contentHash,
                                    verificationResults |-> verificationResults,
                                    attestation |-> OnchainAttestation]))
    /\ UNCHANGED <<config, req, locals, stages, aux>>

\* The response is sent; the server takes the next request.
NextRequest ==
    /\ pc = "done"
    /\ pc' = "idle"
    /\ req' = NoRequest
    /\ sanitizedBlobId' = <<>>
    /\ sanitizedHandoutId' = <<>>
    /\ fetches' = 0
    /\ fetchedId' = <<>>
    /\ textContent' = <<>>
    /\ contentHash' = <<>>
    /\ verificationResults' = NoResults
    /\ message' = <<>>
    /\ upstream' = "none"
    /\ res' = NoResponse
    /\ stages' = <<>>
    /\ UNCHANGED <<config, aux>>

\* The server listens; the other specifications' variables are not in use.
MoreOff ==
    /\ up = "listening"
    /\ sent = <<>>
    /\ st = NotInUse
    /\ rl = NotInUse
    /\ chain = NotInUse
    /\ registry = NotInUse
    /\ zk = NotInUse

\* No request is in flight in any slot and no address has been counted.
ConcOff ==
    /\ conc = <<>>
    /\ scope = <<>>
    /\ rateLimitMap = <<>>
    /\ now = 0

Init ==
    /\ handler \in Handlers
    /\ ADMIN_SECRET_KEY \in SecretKeys
    /\ PACKAGE_ID \in (IF handler = "attest" THEN {""} ELSE PackageIds)
    /\ pc = "idle"
    /\ req = NoRequest
    /\ sanitizedBlobId = <<>>
    /\ sanitizedHandoutId = <<>>
    /\ fetches = 0
    /\ fetchedId = <<>>
    /\ textContent = <<>>
    /\ contentHash = <<>>
    /\ verificationResults = NoResults
    /\ message = <<>>
    /\ upstream = "none"
    /\ res = NoResponse
    /\ stages = <<>>
    /\ frame = NotInUse
    /\ health = NoResponse
    /\ det = NotInUse
    /\ ConcOff
    /\ MoreOff

Next ==
    \/ \E r \in Requests : Receive(r)
    \/ FetchReturns
    \/ TextReturns
    \/ AxiosReturns
    \/ SignReturns
    \/ SubmitReturns
    \/ NextRequest

Spec == Init /\ [][Next]_vars

\* The fetch and the read of the body are bounded by AbortSignal.timeout(30000)
\* (timeout: 30000 in the worker) and keypair.sign is a computation, so each
\* of these steps is taken once it can be.  The handlers set no timeout on
\* client.signAndExecuteTransaction: nothing obliges SubmitReturns to happen.
SpecLive ==
    /\ Init
    /\ [][Next]_vars
    /\ WF_vars(FetchReturns)
    /\ WF_vars(TextReturns)
    /\ WF_vars(AxiosReturns)
    /\ WF_vars(SignReturns)

(***************************************************************************)
(* The framing of the signed message as a function of the request: two     *)
(* accepted requests are framed as the attestation route frames them.      *)
(***************************************************************************)
\* Well-formed hexadecimal object ids of 1..MaxFrameBytes bytes.
RECURSIVE HexIds(_)
HexIds(n) ==
    IF n = 0 THEN {<<>>}
    ELSE {p \o h : p \in {<<"4", "1">>, <<"4", "4">>}, h \in HexIds(n - 1)}

FramePairs ==
    [handoutId : UNION {HexIds(n) : n \in 1..MaxFrameBytes},
     blobId : StringsOver({"A", "D"}, 1, MaxFrameLen)]

\* The message signed for a request body, NoMessage when validation refuses it.
FrameMessage(pair) ==
    LET r == [bodyOk |-> TRUE, blobId |-> JsString(pair.blobId),
              handoutId |-> JsString(pair.handoutId), expectedHash |-> Undefined]
    IN  IF Validate(r) # NoResponse THEN NoMessage
        ELSE SignedMessage(SanitizeHandoutId(r.handoutId.s),
                           SanitizeBlobId(r.blobId.s))

InitFraming ==
    /\ handler = "attest"
    /\ ADMIN_SECRET_KEY = "k1"
    /\ PACKAGE_ID = ""
    /\ pc = "idle"
    /\ req = NoRequest
    /\ sanitizedBlobId = <<>>
    /\ sanitizedHandoutId = <<>>
    /\ fetches = 0
    /\ fetchedId = <<>>
    /\ textContent = <<>>
    /\ contentHash = <<>>
    /\ verificationResults = NoResults
    /\ message = <<>>
    /\ upstream = "none"
    /\ res = NoResponse
    /\ stages = <<>>
    /\ health = NoResponse
    /\ det = NotInUse
    /\ ConcOff
    /\ MoreOff
    /\ \E a \in FramePairs, b \in FramePairs :
          frame = [stage |-> "new", a |-> a, b |-> b,
                   msgA |-> NoMessage, msgB |-> NoMessage]

FrameFirst ==
    /\ frame.stage = "new"
    /\ frame' = [frame EXCEPT !.stage = "first", !.msgA = FrameMessage(frame.a)]
    /\ UNCHANGED <<config, pc, req, locals, res, stages, health, det,
                   concurrent, more>>

FrameSecond ==
    /\ frame.stage = "first"
    /\ frame' = [frame EXCEPT !.stage = "both", !.msgB = FrameMessage(frame.b)]
    /\ UNCHANGED <<config, pc, req, locals, res, stages, health, det,
                   concurrent, more>>

NextFraming == FrameFirst \/ FrameSecond

SpecFraming == InitFraming /\ [][NextFraming]_vars

(***************************************************************************)
(* The digest and the verdict as a function of the fetched body and the    *)
(* expected digest: the same content is evaluated twice, by two instances  *)
(* of the service.                                                         *)
(***************************************************************************)
pipeline == <<config, pc, req, locals, res, stages>>

\* No verify request is being served.
PipelineIdle ==
    /\ pc = "idle"
    /\ req = NoRequest
    /\ sanitizedBlobId = <<>>
    /\ sanitizedHandoutId = <<>>
    /\ fetches = 0
    /\ fetchedId = <<>>
    /\ textContent = <<>>
    /\ contentHash = <<>>
    /\ verificationResults = NoResults
    /\ message = <<>>
    /\ upstream = "none"
    /\ res = NoResponse
    /\ stages = <<>>

\* The text a handler evaluates for a body the aggregator served.
CanonicalText(h, body) ==
    IF h = "worker" THEN WorkerText(body) ELSE FetchText(body)

\* Step 2 of a handler: the digest, the per-check results and the verdict.
DigestAndVerdict(h, body, expectedHash) ==
    LET text    == CanonicalText(h, body)
        results == VerificationResults(text, expectedHash)
    IN  [contentHash |-> ContentHash(text),
         verificationResults |-> results,
         isVerified |-> IsVerified(results)]

InitDeterminism ==
    /\ handler = "attest"
    /\ ADMIN_SECRET_KEY = "k1"
    /\ PACKAGE_ID = ""
    /\ PipelineIdle
    /\ frame = NotInUse
    /\ health = NoResponse
    /\ ConcOff
    /\ MoreOff
    /\ \E body \in Bodies, e \in ExpectedHashValues, a \in Handlers, b \in Handlers :
          det = [stage |-> "new", body |-> body, expectedHash |-> e,
                 a |-> a, b |-> b, outA |-> NoResults, outB |-> NoResults]

DetFirst ==
    /\ det.stage = "new"
    /\ det' = [det EXCEPT !.stage = "first",
                          !.outA = DigestAndVerdict(det.a, det.body, det.expectedHash)]
    /\ UNCHANGED <<pipeline, more, frame, health, concurrent>>

DetSecond ==
    /\ det.stage = "first"
    /\ det' = [det EXCEPT !.stage = "both",
                          !.outB = DigestAndVerdict(det.b, det.body, det.expectedHash)]
    /\ UNCHANGED <<pipeline, more, frame, health, concurrent>>

NextDeterminism == DetFirst \/ DetSecond

SpecDeterminism == InitDeterminism /\ [][NextDeterminism]_vars

(***************************************************************************)
(* The service with its health endpoint, for deployments with either of    *)
(* two well-formed secret keys.                                            *)
(***************************************************************************)
HealthKeys == SecretKeys \cup {"k2"}

\* Mutation: the key is reported the way the package id is, by its prefix.
HealthResponseWithKeyPrefix(key, pkg) ==
    Json(200, [status |-> "healthy", version |-> "1.0.0", network |-> "testnet",
               packageId |-> IF pkg # "" THEN <<pkg, "...">>
                             ELSE <<"NOT_CONFIGURED">>,
               adminKeyConfigured |-> IF key # "" THEN <<key, "...">>
                                      ELSE <<"NOT_CONFIGURED">>])

\* GET /health.  The ids of the model are shorter than ten characters, so
\* slice(0, 10) keeps them whole before '...' is appended.
HealthResponse(key, pkg) ==
    Json(200, [status |-> "healthy", version |-> "1.0.0", network |-> "testnet",
               packageId |-> IF pkg # "" THEN <<pkg, "...">>
                             ELSE <<"NOT_CONFIGURED">>,
               adminKeyConfigured |-> key # ""])

Health ==
    /\ health = NoResponse
    /\ health' = HealthResponse(ADMIN_SECRET_KEY, PACKAGE_ID)
    /\ UNCHANGED <<pipeline, more, frame, det, concurrent>>

\* The health response is sent.
HealthSent ==
    /\ health # NoResponse
    /\ health' = NoResponse
    /\ UNCHANGED <<pipeline, more, frame, det, concurrent>>

\* Verify requests with well-formed ids.
ServedRequests ==
    {r \in Requests : /\ r.bodyOk
                      /\ r.blobId = JsString(<<"B">>)
                      /\ r.handoutId = JsString(<<"A">>)}

InitHealth ==
    /\ handler \in Handlers
    /\ ADMIN_SECRET_KEY \in HealthKeys
    /\ PACKAGE_ID \in (IF handler = "attest" THEN {""} ELSE PackageIds)
    /\ PipelineIdle
    /\ frame = NotInUse
    /\ health = NoResponse
    /\ det = NotInUse
    /\ ConcOff
    /\ MoreOff

NextHealth ==
    \/ Health
    \/ HealthSent
    \/ \E r \in ServedRequests : Receive(r)
    \/ FetchReturns
    \/ TextReturns
    \/ AxiosReturns
    \/ SignReturns
    \/ SubmitReturns
    \/ NextRequest

SpecHealth == InitHealth /\ [][NextHealth]_vars

(***************************************************************************)
(* Verify requests served concurrently by one process: each slot is one    *)
(* invocation of the handler, interleaved with the others at its awaits.   *)
(* The worker passes every request through rateLimit first.                *)
(***************************************************************************)
RATE_LIMIT_WINDOW_MS == 60000

RATE_LIMIT_MAX_REQUESTS == 30

Slots == 1..NumRequests

\* The values of req.ip.
IPs == {"10.0.0.1"}

\* Map.set(k, v).
Put(map, k, v) == [i \in DOMAIN map \cup {k} |-> IF i = k THEN v ELSE map[i]]

\* Mutation: the count is compared with > where the code has >=.
RateLimitOneMore(map, ip, t) ==
    IF ip \notin DOMAIN map
    THEN [map |-> Put(map, ip, [count |-> 1, startTime |-> t]), next |-> TRUE]
    ELSE IF t - map[ip].startTime > RATE_LIMIT_WINDOW_MS
    THEN [map |-> Put(map, ip, [count |-> 1, startTime |-> t]), next |-> TRUE]
    ELSE IF map[ip].count > RATE_LIMIT_MAX_REQUESTS
    THEN [map |-> map, next |-> FALSE]
    ELSE [map |-> Put(map, ip, [count |-> map[ip].count + 1,
                                startTime |-> map[ip].startTime]),
          next |-> TRUE]

\* rateLimit(req, res, next) at time t: the map afterwards and whether next()
\* is called.
RateLimit(map, ip, t) ==
    IF ip \notin DOMAIN map
    THEN [map |-> Put(map, ip, [count |-> 1, startTime |-> t]), next |-> TRUE]
    ELSE IF t - map[ip].startTime > RATE_LIMIT_WINDOW_MS
    THEN [map |-> Put(map, ip, [count |-> 1, startTime |-> t]), next |-> TRUE]
    ELSE IF map[ip].count >= RATE_LIMIT_MAX_REQUESTS
    THEN [map |-> map, next |-> FALSE]
    ELSE [map |-> Put(map, ip, [count |-> map[ip].count + 1,
                                startTime |-> map[ip].startTime]),
          next |-> TRUE]

TooManyRequests ==
    Json(429, [error |-> "Rate limit exceeded. Please try again later."])

\* A slot: the request, what the aggregator and the RPC node did for it, the
\* continuation and the response.
IdleSlot ==
    [pc |-> "idle", req |-> NoRequest, fetched |-> "none", body |-> <<>>,
     rpc |-> "none", res |-> NoResponse]

\* The constants a handler invocation declares.
NoBindings ==
    [sanitizedBlobId |-> <<>>, sanitizedHandoutId |-> <<>>, textContent |-> <<>>,
     contentHash |-> <<>>, verificationResults |-> NoResults, message |-> <<>>]

\* Mutation: the constants are declared at module level, one set for all.
SharedScope(s) == 1

\* The constants are declared inside the handler: one set per invocation.
ScopeOf(s) == s

ConcRequests ==
    {r \in Requests :
        /\ r.bodyOk
        /\ r.blobId \in {Undefined, JsString(<<"B">>)}
        /\ r.handoutId = JsString(<<"A">>)
        /\ r.expectedHash \in {Undefined,
                                JsString(ContentHash(Rep("h", MaxContentLen)))}}

ConcBodies == {Rep("h", 3), Rep("h", MaxContentLen)}

ConcAnswer(s, u, r) ==
    /\ conc' = [conc EXCEPT ![s] = [@ EXCEPT !.fetched = u, !.res = r,
                                             !.pc = "done"]]
    /\ UNCHANGED scope

ConcReceive(s, ip, r) ==
    /\ conc[s].pc = "idle"
    /\ LET lim == IF handler = "worker" THEN RateLimit(rateLimitMap, ip, now)
                  ELSE [map |-> rateLimitMap, next |-> TRUE]
       IN  /\ rateLimitMap' = lim.map
           /\ IF ~lim.next
              THEN /\ conc' = [conc EXCEPT ![s] = [@ EXCEPT !.req = r,
                                     !.res = TooManyRequests, !.pc = "done"]]
                   /\ UNCHANGED scope
              ELSE IF Validate(r) # NoResponse
              THEN /\ conc' = [conc EXCEPT ![s] = [@ EXCEPT !.req = r,
                                     !.res = Validate(r), !.pc = "done"]]
                   /\ UNCHANGED scope
              ELSE /\ conc' = [conc EXCEPT ![s] = [@ EXCEPT !.req = r,
                                                           !.pc = "fetching"]]
                   /\ scope' = [scope EXCEPT ![ScopeOf(s)] = [@ EXCEPT
                          !.sanitizedBlobId = SanitizeBlobId(r.blobId.s),
                          !.sanitizedHandoutId = SanitizeHandoutId(r.handoutId.s)]]
    /\ UNCHANGED <<pipeline, more, frame, health, det, now>>

\* Steps 2 and 3 of the invocation in slot s, up to the next await.
ConcEvaluate(s, body) ==
    LET text    == CanonicalText(handler, body)
        hash    == ContentHash(text)
        results == VerificationResults(text, conc[s].req.expectedHash)
        b       == scope[ScopeOf(s)]
        signs   == /\ IsVerified(results)
                   /\ ADMIN_SECRET_KEY \notin {"", "bad"}
                   /\ handler = "attest" \/ PackageConfigured
        answer  == IF ~IsVerified(results) THEN Rejection(hash, results)
                   ELSE IF ADMIN_SECRET_KEY = ""
                   THEN VerifiedLocally(hash, results, "no key")
                   ELSE IF handler # "attest" /\ ~PackageConfigured
                   THEN VerifiedLocally(hash, results, "no package")
                   ELSE IF ADMIN_SECRET_KEY = "bad" THEN Catch(KeyError)
                   ELSE NoResponse
    IN  /\ scope' = [scope EXCEPT ![ScopeOf(s)] = [@ EXCEPT
               !.textContent = text,
               !.contentHash = hash,
               !.verificationResults = results,
               !.message = IF signs /\ handler = "attest"
                           THEN SignedMessage(b.sanitizedHandoutId,
                                              b.sanitizedBlobId)
                           ELSE <<>>]]
        /\ conc' = [conc EXCEPT ![s] = [@ EXCEPT
               !.fetched = "ok",
               !.body = body,
               !.res = answer,
               !.pc = IF ~signs THEN "done"
                      ELSE IF handler = "attest" THEN "signing"
                      ELSE "submitting"]]

ConcFetchReturns(s) ==
    /\ conc[s].pc = "fetching"
    /\ IF handler = "worker"
       THEN \/ \E u \in {"notFound", "timeout"} :
                 ConcAnswer(s, u, Catch(AxiosError(u)))
            \/ \E body \in ConcBodies : ConcEvaluate(s, body)
       ELSE \/ ConcAnswer(s, "timeout", Catch(FetchApiError("timeout")))
            \/ ConcAnswer(s, "notFound", NotOk("notFound"))
            \/ /\ conc' = [conc EXCEPT ![s].pc = "reading"]
               /\ UNCHANGED scope
    /\ UNCHANGED <<pipeline, more, frame, health, det, rateLimitMap, now>>

ConcTextReturns(s) ==
    /\ conc[s].pc = "reading"
    /\ \/ ConcAnswer(s, "timeout", Catch(FetchApiError("timeout")))
       \/ \E body \in ConcBodies : ConcEvaluate(s, body)
    /\ UNCHANGED <<pipeline, more, frame, health, det, rateLimitMap, now>>

ConcSignReturns(s) ==
    /\ conc[s].pc = "signing"
    /\ LET b == scope[ScopeOf(s)]
       IN  conc' = [conc EXCEPT ![s] = [@ EXCEPT !.pc = "done", !.res =
              Json(200, [status |-> "attestation_ready",
                         contentHash |-> b.contentHash,
                         verificationResults |-> b.verificationResults,
                         attestation |->
                            [signature |-> Sign(ADMIN_SECRET_KEY, b.message),
                             publicKey |-> PublicKey(ADMIN_SECRET_KEY),
                             message   |-> b.message,
                             handoutId |-> b.sanitizedHandoutId,
                             blobId    |-> b.sanitizedBlobId]])]]
    /\ UNCHANGED <<pipeline, more, frame, health, det, scope, rateLimitMap, now>>

ConcSubmitReturns(s) ==
    /\ conc[s].pc = "submitting"
    /\ LET b == scope[ScopeOf(s)]
       IN  \/ \E err \in RpcErrors :
                conc' = [conc EXCEPT ![s] = [@ EXCEPT !.pc = "done",
                            !.rpc = "threw", !.res = Catch(err)]]
           \/ conc' = [conc EXCEPT ![s] = [@ EXCEPT !.pc = "done",
                            !.rpc = "failure", !.res = TransactionFailed]]
           \/ conc' = [conc EXCEPT ![s] = [@ EXCEPT !.pc = "done",
                            !.rpc = "success", !.res =
                  Json(200, [status |-> "verified_onchain",
                             digest |-> "tx",
                             contentHash |-> b.contentHash,
                             verificationResults |-> b.verificationResults,
                             attestation |-> OnchainAttestation])]]
    /\ UNCHANGED <<pipeline, more, frame, health, det, scope, rateLimitMap, now>>

\* The response is sent and the invocation is over.
ConcFinish(s) ==
    /\ conc[s].pc = "done"
    /\ conc' = [conc EXCEPT ![s] = IdleSlot]
    /\ scope' = [scope EXCEPT ![ScopeOf(s)] = NoBindings]
    /\ UNCHANGED <<pipeline, more, frame, health, det, rateLimitMap, now>>

InitConcurrent ==
    /\ handler \in Handlers
    /\ ADMIN_SECRET_KEY \in {"", "k1"}
    /\ PACKAGE_ID = IF handler = "attest" THEN "" ELSE "0xpkg"
    /\ PipelineIdle
    /\ frame = NotInUse
    /\ health = NoResponse
    /\ det = NotInUse
    /\ conc = [s \in Slots |-> IdleSlot]
    /\ scope = [s \in Slots |-> NoBindings]
    /\ rateLimitMap = <<>>
    /\ now = 0
    /\ MoreOff

NextConcurrent ==
    \E s \in Slots :
        \/ \E ip \in IPs, r \in ConcRequests : ConcReceive(s, ip, r)
        \/ ConcFetchReturns(s)
        \/ ConcTextReturns(s)
        \/ ConcSignReturns(s)
        \/ ConcSubmitReturns(s)
        \/ ConcFinish(s)

SpecConcurrent == InitConcurrent /\ [][NextConcurrent]_vars

(***************************************************************************)
(* The status endpoint: GET /api/status/[id] of the web application and    *)
(* GET /status/:handoutId of the worker.                                   *)
(***************************************************************************)
\* The ids a router can bind to the path parameter: non-empty strings.
StatusIds == StringsOver({"a", "z"}, 1, MaxIdLen)

\* isValidSuiObjectId(normalizeSuiObjectId(id)): hexadecimal digits only.
IsValidSuiObjectId(id) ==
    \A i \in 1..Len(id) : id[i] \in Range(DigitSeq) \cup {"a", "b", "c", "d", "e", "f"}

\* How client.getObject ends for an id: it throws (always for an id that is
\* not well-formed, and when the node cannot be reached), or it answers
\* with what the node holds.
GetObjectOutcomes(id, objects) ==
    IF ~IsValidSuiObjectId(id) THEN {"threw"} ELSE {"threw", objects[id]}

\* The body of the handler after client.getObject has ended.
StatusResponse(id, outcome) ==
    IF outcome = "threw"
    THEN Json(500, [error |-> "Failed to fetch handout status"])
    ELSE IF outcome = "none"
    THEN Json(404, [error |-> "Handout not found"])
    ELSE IF outcome = "package"
    THEN Json(400, [error |-> "Invalid object type"])
    ELSE Json(200, [handoutId |-> id, verified |-> outcome = "handoutVerified"])

\* The handler up to await client.getObject.
StatusReceive(id) ==
    /\ st.pc = "idle"
    /\ IF id = <<>>
       THEN st' = [st EXCEPT !.pc = "done", !.id = id,
                             !.res = Json(400, [error |-> "Invalid handoutId"])]
       ELSE st' = [st EXCEPT !.pc = "waiting", !.id = id]
    /\ UNCHANGED <<pipeline, frame, health, det, concurrent, up, sent, rl,
                   chain, registry, zk>>

StatusReturns ==
    /\ st.pc = "waiting"
    /\ \E outcome \in GetObjectOutcomes(st.id, st.objects) :
          st' = [st EXCEPT !.pc = "done", !.outcome = outcome,
                           !.res = StatusResponse(st.id, outcome)]
    /\ UNCHANGED <<pipeline, frame, health, det, concurrent, up, sent, rl,
                   chain, registry, zk>>

\* The response is sent.
StatusSent ==
    /\ st.pc = "done"
    /\ st' = [st EXCEPT !.pc = "idle", !.id = <<>>, !.outcome = "none",
                        !.res = NoResponse]
    /\ UNCHANGED <<pipeline, frame, health, det, concurrent, up, sent, rl,
                   chain, registry, zk>>

InitStatus ==
    /\ handler \in {"attest", "worker"}
    /\ ADMIN_SECRET_KEY = "k1"
    /\ PACKAGE_ID = IF handler = "attest" THEN "" ELSE "0xpkg"
    /\ PipelineIdle
    /\ frame = NotInUse
    /\ health = NoResponse
    /\ det = NotInUse
    /\ ConcOff
    /\ up = "listening"
    /\ sent = <<>>
    /\ rl = NotInUse
    /\ chain = NotInUse
    /\ registry = NotInUse
    /\ zk = NotInUse
    /\ \E objects \in [{id \in StatusIds : IsValidSuiObjectId(id)} ->
              {"none", "package", "handoutVerified", "handoutUnverified"}] :
          st = [pc |-> "idle", id |-> <<>>, outcome |-> "none",
                res |-> NoResponse, objects |-> objects]

NextStatus ==
    \/ \E id \in StatusIds : StatusReceive(id)
    \/ StatusReturns
    \/ StatusSent

SpecStatus == InitStatus /\ [][NextStatus]_vars

(***************************************************************************)
(* Verify requests served one after the other by one process: sent holds   *)
(* the exchange that was answered before the current one.                  *)
(***************************************************************************)
\* Verify requests with well-formed ids, and one without a blob id.
SequenceRequests ==
    {r \in Requests :
        /\ r.bodyOk
        /\ r.blobId \in {Undefined, JsString(<<"B">>)}
        /\ r.handoutId = JsString(<<"A">>)
        /\ r.expectedHash \in {Undefined, JsString(ContentHash(Rep("h", 3)))}}

\* Mutation: the process remembers what it attested and answers a repeated
\* request from that record.
DeliverKeepingRecord ==
    /\ pc = "done"
    /\ sent' = <<[req |-> req, upstream |-> upstream, stages |-> stages,
                  textContent |-> textContent, res |-> res]>>
    /\ pc' = "idle"
    /\ req' = NoRequest
    /\ res' = NoResponse
    /\ stages' = <<>>
    /\ upstream' = "none"
    /\ UNCHANGED <<sanitizedBlobId, sanitizedHandoutId, fetches, fetchedId,
                   textContent, contentHash, verificationResults, message>>
    /\ UNCHANGED <<config, frame, health, det, concurrent, up, st, rl, chain,
                   registry, zk>>

\* The response is sent and the invocation is over: nothing of it is kept.
Deliver ==
    /\ pc = "done"
    /\ sent' = <<[req |-> req, upstream |-> upstream, stages |-> stages,
                  textContent |-> textContent, res |-> res]>>
    /\ pc' = "idle"
    /\ req' = NoRequest
    /\ sanitizedBlobId' = <<>>
    /\ sanitizedHandoutId' = <<>>
    /\ fetches' = 0
    /\ fetchedId' = <<>>
    /\ textContent' = <<>>
    /\ contentHash' = <<>>
    /\ verificationResults' = NoResults
    /\ message' = <<>>
    /\ upstream' = "none"
    /\ res' = NoResponse
    /\ stages' = <<>>
    /\ UNCHANGED <<config, frame, health, det, concurrent, up, st, rl, chain,
                   registry, zk>>

InitSequence ==
    /\ handler \in Handlers
    /\ ADMIN_SECRET_KEY \in SecretKeys
    /\ PACKAGE_ID = IF handler = "attest" THEN "" ELSE "0xpkg"
    /\ PipelineIdle
    /\ frame = NotInUse
    /\ health = NoResponse
    /\ det = NotInUse
    /\ ConcOff
    /\ MoreOff

NextSequence ==
    \/ \E r \in SequenceRequests : Receive(r)
    \/ FetchReturns
    \/ TextReturns
    \/ AxiosReturns
    \/ SignReturns
    \/ SubmitReturns
    \/ Deliver

SpecSequence == InitSequence /\ [][NextSequence]_vars

(***************************************************************************)
(* The worker from the start of its process: the configuration is read,    *)
(* a missing PACKAGE_ID is warned about, and app.listen is called.         *)
(***************************************************************************)
\* app.listen(PORT, ...): reached whatever the configuration is.
Listen ==
    /\ up = "starting"
    /\ up' = "listening"
    /\ UNCHANGED <<pipeline, frame, health, det, concurrent, sent, st, rl,
                   chain, registry, zk>>

InitStartup ==
    /\ handler = "worker"
    /\ ADMIN_SECRET_KEY \in SecretKeys
    /\ PACKAGE_ID \in PackageIds
    /\ PipelineIdle
    /\ frame = NotInUse
    /\ health = NoResponse
    /\ det = NotInUse
    /\ ConcOff
    /\ up = "starting"
    /\ sent = <<>>
    /\ st = NotInUse
    /\ rl = NotInUse
    /\ chain = NotInUse
    /\ registry = NotInUse
    /\ zk = NotInUse

NextStartup ==
    \/ Listen
    \/ \E r \in ServedRequests : up = "listening" /\ Receive(r)
    \/ AxiosReturns
    \/ SubmitReturns
    \/ NextRequest

SpecStartup == InitStartup /\ [][NextStartup]_vars

(***************************************************************************)
(* The worker's rate limiter under a clock: requests arrive and time       *)
(* passes.  rl.admitted records when the requests of an address were let   *)
(* through (times older than one window are dropped), rl.last the answer   *)
(* to the latest request.                                                  *)
(***************************************************************************)
\* A request of address ip passes through rateLimit.
RateLimitRequest(ip) ==
    LET lim == RateLimit(rateLimitMap, ip, now)
    IN  /\ rateLimitMap' = lim.map
        /\ rl' = [rl EXCEPT
              !.last = [ip |-> ip, next |-> lim.next,
                        status |-> IF lim.next THEN 0 ELSE TooManyRequests.status],
              !.admitted[ip] = IF lim.next THEN Append(@, now) ELSE @]
        /\ UNCHANGED <<pipeline, frame, health, det, conc, scope, now, up, sent,
                       st, chain, registry, zk>>

\* Time passes.
Tick(d) ==
    /\ rl.ticks < MaxTicks
    /\ now' = now + d
    /\ rl' = [rl EXCEPT
          !.ticks = @ + 1,
          !.admitted = [ip \in IPs |->
              SelectSeq(rl.admitted[ip],
                        LAMBDA at : at >= now + d - RATE_LIMIT_WINDOW_MS)]]
    /\ UNCHANGED <<pipeline, frame, health, det, conc, scope, rateLimitMap, up,
                   sent, st, chain, registry, zk>>

InitRateLimit ==
    /\ handler = "worker"
    /\ ADMIN_SECRET_KEY = "k1"
    /\ PACKAGE_ID = "0xpkg"
    /\ PipelineIdle
    /\ frame = NotInUse
    /\ health = NoResponse
    /\ det = NotInUse
    /\ ConcOff
    /\ up = "listening"
    /\ sent = <<>>
    /\ st = NotInUse
    /\ chain = NotInUse
    /\ registry = NotInUse
    /\ zk = NotInUse
    /\ rl = [admitted |-> [ip \in IPs |-> <<>>], last |-> [ip |-> "", next |-> TRUE, status |-> 0], ticks |-> 0]

NextRateLimit ==
    \/ \E ip \in IPs : RateLimitRequest(ip)
    \/ \E d \in {1, RATE_LIMIT_WINDOW_MS - 1, RATE_LIMIT_WINDOW_MS} : Tick(d)

SpecRateLimit == InitRateLimit /\ [][NextRateLimit]_vars

(***************************************************************************)
(* The Move module sui_echo::echo: handouts and the reward pools of the    *)
(* shared AlumniAjo object.  Every action is one transaction calling one   *)
(* function; a transaction whose assert! fails aborts and changes no       *)
(* object.  chain.last records the call and its outcome.  The fields       *)
(* sponsored, paid and rewards count, beside the objects, what was put     *)
(* into each pool, what was paid from it and how many rewards each handout *)
(* received.                                                               *)
(***************************************************************************)
\* The verification service, which these transactions do not touch.
backend == <<pipeline, frame, health, det, concurrent, up, sent, st>>

ENotAuthorized == 0
ENotVerified == 1
EAlreadyVerified == 2
EInsufficientBalance == 3
EInvalidInput == 4
EPoolNotFound == 5
EAlreadyRegistered == 6
DEFAULT_REWARD_AMOUNT == 100000000
MIN_BLOB_ID_LENGTH == 10

Addresses == {"0xa", "0xb", "0xc"}
CourseCodes == {"CS101", "MTH1"}

\* A call, the address it is about and its outcome: returned, or aborted
\* with the code of the assert! that failed.
CallOf(fn, who, aborted, code) ==
    [fn |-> fn, who |-> who, aborted |-> aborted, code |-> code]

mint_handout(sender, blobIdLength) ==
    /\ Len(chain.handouts) < MaxHandouts
    /\ IF blobIdLength < MIN_BLOB_ID_LENGTH
       THEN chain' = [chain EXCEPT !.last = CallOf("mint_handout", "", TRUE, EInvalidInput)]
       ELSE chain' = [chain EXCEPT
              !.handouts = Append(@, [uploader |-> sender, verified |-> FALSE,
                                      verified_by |-> "0x0"]),
              !.rewards = Append(@, 0),
              !.last = CallOf("mint_handout", "", FALSE, 0)]
    /\ UNCHANGED <<backend, rl, registry, zk>>

verify_handout(h, sender) ==
    /\ h \in DOMAIN chain.handouts
    /\ IF chain.handouts[h].uploader # sender
       THEN chain' = [chain EXCEPT !.last = CallOf("verify_handout", "", TRUE, ENotAuthorized)]
       ELSE IF chain.handouts[h].verified
       THEN chain' = [chain EXCEPT !.last = CallOf("verify_handout", "", TRUE, EAlreadyVerified)]
       ELSE chain' = [chain EXCEPT
              !.handouts[h].verified = TRUE,
              !.handouts[h].verified_by = sender,
              !.last = CallOf("verify_handout", "", FALSE, 0)]
    /\ UNCHANGED <<backend, rl, registry, zk>>

set_reward_amount(new_amount) ==
    /\ chain' = [chain EXCEPT !.reward_amount = new_amount,
                              !.last = CallOf("set_reward_amount", "", FALSE, 0)]
    /\ UNCHANGED <<backend, rl, registry, zk>>

\* Mutation: the reward is paid and total_rewards_paid is not increased.
claim_reward_untallied(h, course_code) ==
    /\ h \in DOMAIN chain.handouts
    /\ IF ~chain.handouts[h].verified
       THEN chain' = [chain EXCEPT !.last = CallOf("claim_reward", "", TRUE, ENotVerified)]
       ELSE IF course_code \notin DOMAIN chain.pools
       THEN chain' = [chain EXCEPT !.last = CallOf("claim_reward", "", TRUE, EPoolNotFound)]
       ELSE IF ~(chain.pools[course_code] >= chain.reward_amount)
       THEN chain' = [chain EXCEPT !.last = CallOf("claim_reward", "", TRUE, EInsufficientBalance)]
       ELSE chain' = [chain EXCEPT
              !.pools[course_code] = @ - chain.reward_amount,
              !.paid[course_code] = @ + chain.reward_amount,
              !.rewards[h] = @ + 1,
              !.last = CallOf("claim_reward", "", FALSE, 0)]
    /\ UNCHANGED <<backend, rl, registry, zk>>

claim_reward(h, course_code) ==
    /\ h \in DOMAIN chain.handouts
    /\ IF ~chain.handouts[h].verified
       THEN chain' = [chain EXCEPT !.last = CallOf("claim_reward", "", TRUE, ENotVerified)]
       ELSE IF course_code \notin DOMAIN chain.pools
       THEN chain' = [chain EXCEPT !.last = CallOf("claim_reward", "", TRUE, EPoolNotFound)]
       ELSE IF ~(chain.pools[course_code] >= chain.reward_amount)
       THEN chain' = [chain EXCEPT !.last = CallOf("claim_reward", "", TRUE, EInsufficientBalance)]
       ELSE chain' = [chain EXCEPT
              !.pools[course_code] = @ - chain.reward_amount,
              !.total_rewards_paid = @ + chain.reward_amount,
              !.paid[course_code] = @ + chain.reward_amount,
              !.rewards[h] = @ + 1,
              !.last = CallOf("claim_reward", "", FALSE, 0)]
    /\ UNCHANGED <<backend, rl, registry, zk>>

sponsor_course(course_code, payment) ==
    /\ chain.sponsorships < MaxSponsorships
    /\ chain' = [chain EXCEPT
          !.pools = IF course_code \in DOMAIN chain.pools
                    THEN Put(chain.pools, course_code,
                             chain.pools[course_code] + payment)
                    ELSE Put(chain.pools, course_code, payment),
          !.sponsored[course_code] = @ + payment,
          !.sponsorships = @ + 1,
          !.last = CallOf("sponsor_course", "", FALSE, 0)]
    /\ UNCHANGED <<backend, rl, registry, zk>>

InitMove ==
    /\ handler = "attest"
    /\ ADMIN_SECRET_KEY = "k1"
    /\ PACKAGE_ID = "0xpkg"
    /\ PipelineIdle
    /\ frame = NotInUse
    /\ health = NoResponse
    /\ det = NotInUse
    /\ ConcOff
    /\ up = "listening"
    /\ sent = <<>>
    /\ st = NotInUse
    /\ rl = NotInUse
    /\ registry = NotInUse
    /\ zk = NotInUse
    /\ chain = [handouts |-> <<>>,
                pools |-> <<>>,
                reward_amount |-> DEFAULT_REWARD_AMOUNT,
                total_rewards_paid |-> 0,
                sponsored |-> [c \in CourseCodes |-> 0],
                paid |-> [c \in CourseCodes |-> 0],
                rewards |-> <<>>,
                sponsorships |-> 0,
                last |-> CallOf("init", "", FALSE, 0)]

NextMove ==
    \/ \E a \in Addresses, n \in {MIN_BLOB_ID_LENGTH - 1, MIN_BLOB_ID_LENGTH} :
          mint_handout(a, n)
    \/ \E h \in 1..MaxHandouts, a \in Addresses : verify_handout(h, a)
    \/ \E v \in {50000000, DEFAULT_REWARD_AMOUNT} : set_reward_amount(v)
    \/ \E h \in 1..MaxHandouts, c \in CourseCodes : claim_reward(h, c)
    \/ \E c \in CourseCodes, v \in {50000000, 200000000} : sponsor_course(c, v)

SpecMove == InitMove /\ [][NextMove]_vars

(***************************************************************************)
(* The Move module's CourseRepRegistry: the tables pending_applications    *)
(* and verified_reps and the applications stored as dynamic fields of the  *)
(* registry, keyed by the applicant's address.  registry.last records the  *)
(* latest call, the address it was about and its outcome.                  *)
(***************************************************************************)
Without(map, k) == [i \in DOMAIN map \ {k} |-> map[i]]

apply_for_course_rep(sender, course_code) ==
    /\ IF sender \in DOMAIN registry.verified_reps
       THEN registry' = [registry EXCEPT !.last =
              CallOf("apply_for_course_rep", sender, TRUE, EAlreadyRegistered)]
       ELSE IF sender \in DOMAIN registry.pending_applications
       THEN registry' = [registry EXCEPT !.last =
              CallOf("apply_for_course_rep", sender, TRUE, EAlreadyRegistered)]
       ELSE registry' = [registry EXCEPT
              !.pending_applications = Put(@, sender, TRUE),
              !.applications = Put(@, sender, [applicant |-> sender,
                                               course_code |-> course_code]),
              !.last = CallOf("apply_for_course_rep", sender, FALSE, 0)]
    /\ UNCHANGED <<backend, rl, chain, zk>>

\* Mutation: the approved address stays in pending_applications.
approve_course_rep_still_pending(applicant) ==
    /\ IF applicant \notin DOMAIN registry.applications
       THEN registry' = [registry EXCEPT !.last =
              CallOf("approve_course_rep", applicant, TRUE, ENotAuthorized)]
       ELSE LET application == registry.applications[applicant]
                app_addr == application.applicant
            IN  registry' = [registry EXCEPT
                  !.applications = Without(@, applicant),
                  !.verified_reps =
                      IF app_addr \notin DOMAIN @
                      THEN Put(@, app_addr, application.course_code) ELSE @,
                  !.last = CallOf("approve_course_rep", applicant, FALSE, 0)]
    /\ UNCHANGED <<backend, rl, chain, zk>>

approve_course_rep(applicant) ==
    /\ IF applicant \notin DOMAIN registry.applications
       THEN registry' = [registry EXCEPT !.last =
              CallOf("approve_course_rep", applicant, TRUE, ENotAuthorized)]
       ELSE LET application == registry.applications[applicant]
                app_addr == application.applicant
            IN  registry' = [registry EXCEPT
                  !.applications = Without(@, applicant),
                  !.pending_applications =
                      IF app_addr \in DOMAIN @ THEN Without(@, app_addr) ELSE @,
                  !.verified_reps =
                      IF app_addr \notin DOMAIN @
                      THEN Put(@, app_addr, application.course_code) ELSE @,
                  !.last = CallOf("approve_course_rep", applicant, FALSE, 0)]
    /\ UNCHANGED <<backend, rl, chain, zk>>

reject_course_rep(applicant) ==
    /\ IF applicant \notin DOMAIN registry.applications
       THEN registry' = [registry EXCEPT !.last =
              CallOf("reject_course_rep", applicant, TRUE, ENotAuthorized)]
       ELSE LET app_addr == registry.applications[applicant].applicant
            IN  registry' = [registry EXCEPT
                  !.applications = Without(@, applicant),
                  !.pending_applications =
                      IF app_addr \in DOMAIN @ THEN Without(@, app_addr) ELSE @,
                  !.last = CallOf("reject_course_rep", applicant, FALSE, 0)]
    /\ UNCHANGED <<backend, rl, chain, zk>>

InitRegistry ==
    /\ handler = "attest"
    /\ ADMIN_SECRET_KEY = "k1"
    /\ PACKAGE_ID = "0xpkg"
    /\ PipelineIdle
    /\ frame = NotInUse
    /\ health = NoResponse
    /\ det = NotInUse
    /\ ConcOff
    /\ up = "listening"
    /\ sent = <<>>
    /\ st = NotInUse
    /\ rl = NotInUse
    /\ chain = NotInUse
    /\ zk = NotInUse
    /\ registry = [pending_applications |-> <<>>,
                   verified_reps |-> <<>>,
                   applications |-> <<>>,
                   last |-> CallOf("init", "", FALSE, 0)]

NextRegistry ==
    \/ \E a \in Addresses, c \in CourseCodes : apply_for_course_rep(a, c)
    \/ \E a \in Addresses : approve_course_rep(a)
    \/ \E a \in Addresses : reject_course_rep(a)

SpecRegistry == InitRegistry /\ [][NextRegistry]_vars

(***************************************************************************)
(* The zkLogin utilities of the web client: the browser tab's              *)
(* sessionStorage and the login, callback and logout functions.  A 32-bit  *)
(* word is a pair <<high, low>> of 16-bit halves; a BigInt is the          *)
(* sequence of its decimal digits, most significant first.                 *)
(***************************************************************************)
\* generateUserSalt(sub): four djb2 hashes of the subject, each reduced by
\* Math.abs(hash) >>> 0, combined as salt * 1000000 + hash and printed in
\* decimal.
generateUserSalt(sub) ==
    LET \* a ^ b on the low n bits.
        RECURSIVE XorBits(_, _, _)
        XorBits(a, b, n) ==
            IF n = 0 THEN 0
            ELSE (((a % 2) + (b % 2)) % 2)
                   + 2 * XorBits(a \div 2, b \div 2, n - 1)
        \* ((hash << 5) + hash) ^ byte, as the 32-bit integer that ^ yields.
        Djb2Step(hash, byte) ==
            LET shLow == (hash[2] * 32) % 65536
                shHigh == (hash[1] * 32 + (hash[2] * 32) \div 65536) % 65536
                low == (shLow + hash[2]) % 65536
                high == (shHigh + hash[1] + (shLow + hash[2]) \div 65536)
                          % 65536
            IN  <<high, (low \div 256) * 256 + XorBits(low % 256, byte, 8)>>
        \* The loop over the encoded bytes of s, from hash.
        RECURSIVE Djb2(_, _)
        Djb2(hash, s) ==
            IF s = <<>> THEN hash
            ELSE CHOOSE r \in {Djb2(next, Tail(s)) :
                     next \in {Djb2Step(hash, CharCode(Head(s)))}} : TRUE
        \* The decimal digits of a natural number below 2^31.
        RECURSIVE DigitsOf(_)
        DigitsOf(n) ==
            IF n < 10 THEN <<n>> ELSE Append(DigitsOf(n \div 10), n % 10)
        \* Math.abs(hash) >>> 0, as decimal digits.
        AbsUnsigned(hash) ==
            IF hash[1] < 32768 THEN DigitsOf(hash[1] * 65536 + hash[2])
            ELSE IF hash = <<32768, 0>> THEN <<2, 1, 4, 7, 4, 8, 3, 6, 4, 8>>
            ELSE DigitsOf((65535 - hash[1] + (IF hash[2] = 0 THEN 1 ELSE 0))
                            * 65536 + ((65536 - hash[2]) % 65536))
        \* a + b on decimal digits.
        RECURSIVE AddDigits(_, _, _)
        AddDigits(a, b, carry) ==
            IF a = <<>> /\ b = <<>>
            THEN (IF carry = 0 THEN <<>> ELSE <<carry>>)
            ELSE LET x == IF a = <<>> THEN 0 ELSE a[Len(a)]
                     y == IF b = <<>> THEN 0 ELSE b[Len(b)]
                     restA == IF a = <<>> THEN <<>>
                              ELSE SubSeq(a, 1, Len(a) - 1)
                     restB == IF b = <<>> THEN <<>>
                              ELSE SubSeq(b, 1, Len(b) - 1)
                 IN  Append(AddDigits(restA, restB, (x + y + carry) \div 10),
                            (x + y + carry) % 10)
        \* salt * BigInt(1000000) + BigInt(x).
        TimesMillionPlus(salt, x) ==
            AddDigits(IF salt = <<0>> THEN salt ELSE salt \o Rep(0, 6), x, 0)
        \* BigInt.toString().
        RECURSIVE BigIntToString(_)
        BigIntToString(n) ==
            IF n = <<>> THEN <<>>
            ELSE <<DigitSeq[Head(n) + 1]>> \o BigIntToString(Tail(n))
        SaltSuffix ==
            <<"_", "s", "u", "i", "_", "e", "c", "h", "o", "_", "s", "a", "l",
              "t", "_", "v", "1", "_", "s", "t", "a", "b", "l", "e">>
        IterationSuffix(i) ==
            <<"_", "i", "t", "e", "r", "a", "t", "i", "o", "n", "_",
              DigitSeq[i + 1]>>
        iter(i) == AbsUnsigned(Djb2(<<0, 5381>>, sub \o IterationSuffix(i)))
        salt0 == AbsUnsigned(Djb2(<<0, 5381>>, sub \o SaltSuffix))
        salt1 == TimesMillionPlus(salt0, iter(0))
        salt2 == TimesMillionPlus(salt1, iter(1))
        salt3 == TimesMillionPlus(salt2, iter(2))
    IN  BigIntToString(salt3)

\* jwtToAddress(jwt, userSalt): the address is a hash of the token's subject
\* (with its issuer and audience, which are fixed here) and the salt.
jwtToAddress(jwt, userSalt) == [sub |-> jwt.sub, salt |-> userSalt]

\* sessionStorage.getItem of a key that is not set.
Null == <<>>

EmptyStorage ==
    [sui_zklogin_session |-> Null, sui_zklogin_jwt |-> Null,
     sui_zklogin_proof |-> Null, sui_zklogin_user_salt |-> Null,
     sui_zklogin_address |-> Null]

\* The tokens the identity provider may redirect back with.
Jwts ==
    [sub : {<<"1", "7">>, <<"4", "2">>}, nonce : 0..MaxLogins, expired : BOOLEAN]

\* prepareZkLoginSession(): a new ephemeral key, randomness and nonce are
\* stored; nothing is stored when the epoch cannot be read.
prepareZkLoginSession(epochRead) ==
    /\ zk.pc = "idle"
    /\ zk.logins < MaxLogins
    /\ IF ~epochRead
       THEN zk' = [zk EXCEPT !.logins = @ + 1,
                             !.last = [outcome |-> "epoch unavailable"]]
       ELSE zk' = [zk EXCEPT
              !.logins = @ + 1,
              !.storage.sui_zklogin_session = <<[nonce |-> zk.logins + 1]>>,
              !.last = [outcome |-> "redirected"]]
    /\ UNCHANGED <<backend, rl, chain, registry>>

\* completeZkLoginCallback(jwt) up to the request to the prover.
completeZkLoginCallback(jwt) ==
    /\ zk.pc = "idle"
    /\ LET session == zk.storage.sui_zklogin_session
           stored == zk.storage.sui_zklogin_user_salt
           userSalt == IF stored = Null THEN generateUserSalt(jwt.sub)
                       ELSE stored
       IN  IF session = Null
           THEN zk' = [zk EXCEPT !.last = [outcome |-> "missing session"]]
           ELSE IF jwt.nonce # session[1].nonce
           THEN zk' = [zk EXCEPT !.last = [outcome |-> "nonce mismatch"]]
           ELSE IF jwt.expired
           THEN zk' = [zk EXCEPT !.last = [outcome |-> "expired"]]
           ELSE zk' = [zk EXCEPT
                  !.storage.sui_zklogin_user_salt = userSalt,
                  !.pc = "proving",
                  !.jwt = <<jwt>>,
                  !.userSalt = userSalt]
    /\ UNCHANGED <<backend, rl, chain, registry>>

\* completeZkLoginCallback from the prover's answer on.
ProverReturns(ok) ==
    /\ zk.pc = "proving"
    /\ IF ~ok
       THEN zk' = [zk EXCEPT !.pc = "idle", !.jwt = Null, !.userSalt = Null,
                             !.last = [outcome |-> "proof failed"]]
       ELSE LET jwt == zk.jwt[1]
                userSalt == zk.userSalt
                zkLoginAddress == jwtToAddress(jwt, userSalt)
            IN  zk' = [zk EXCEPT
                  !.pc = "idle", !.jwt = Null, !.userSalt = Null,
                  !.storage.sui_zklogin_jwt = <<jwt>>,
                  !.storage.sui_zklogin_proof = <<"p">>,
                  !.storage.sui_zklogin_address = <<zkLoginAddress>>,
                  !.last = [outcome |-> "ok", sub |-> jwt.sub,
                            userSalt |-> userSalt,
                            zkLoginAddress |-> zkLoginAddress]]
    /\ UNCHANGED <<backend, rl, chain, registry>>

\* clearZkLoginSession(), called by the sidebar's logout.
clearZkLoginSession ==
    /\ zk.pc = "idle"
    /\ zk' = [zk EXCEPT !.storage = EmptyStorage,
                        !.last = [outcome |-> "logged out"]]
    /\ UNCHANGED <<backend, rl, chain, registry>>

InitZkLogin ==
    /\ handler = "route"
    /\ ADMIN_SECRET_KEY = "k1"
    /\ PACKAGE_ID = "0xpkg"
    /\ PipelineIdle
    /\ frame = NotInUse
    /\ health = NoResponse
    /\ det = NotInUse
    /\ ConcOff
    /\ up = "listening"
    /\ sent = <<>>
    /\ st = NotInUse
    /\ rl = NotInUse
    /\ chain = NotInUse
    /\ registry = NotInUse
    /\ zk = [storage |-> EmptyStorage, pc |-> "idle", jwt |-> Null,
             userSalt |-> Null, logins |-> 0, last |-> [outcome |-> "none"]]

NextZkLogin ==
    \/ \E epochRead \in BOOLEAN : prepareZkLoginSession(epochRead)
    \/ \E jwt \in Jwts : completeZkLoginCallback(jwt)
    \/ \E ok \in BOOLEAN : ProverReturns(ok)
    \/ clearZkLoginSession

SpecZkLogin == InitZkLogin /\ [][NextZkLogin]_vars

(***************************************************************************)
(* Properties.                                                             *)
(***************************************************************************)
StageOrder == <<"Fetching", "Canonicalizing", "Evaluating", "Signing">>

IsPrefix(a, b) == Len(a) <= Len(b) /\ SubSeq(b, 1, Len(a)) = a

Entered(stage) == stage \in Range(stages)

LastStage == IF stages = <<>> THEN "none" ELSE stages[Len(stages)]

Done == pc = "done"

Has(field) == field \in DOMAIN res.body

VerdictComputed == verificationResults # NoResults

\* The conjunction of the three named checks of the verdict.
AllChecksPass ==
    /\ verificationResults.minLengthCheck
    /\ verificationResults.hashCheck
    /\ verificationResults.contentIntegrity

\* The kind of outcome a response reports.
Outcome ==
    IF res.status = 200 /\ Has("status") /\ Has("attestation")
       /\ res.body.status \in {"attestation_ready", "verified_onchain"}
    THEN "Attested"
    ELSE IF res.status = 200 /\ Has("status") /\ ~Has("attestation")
            /\ res.body.status = "verified_locally"
    THEN "VerifiedLocally"
    ELSE IF res.status = 422 /\ ~Has("attestation") THEN "Rejected"
    ELSE IF res.status \in {400, 404, 500, 502, 504} /\ ~Has("attestation")
    THEN "Failed"
    ELSE "Unknown"

\* C1: the Signing stage is entered exactly when a verdict was computed and
\* all of its checks passed; with a failing check nothing is signed or
\* submitted and the response carries no attestation.
C1_SigningIffPass ==
    /\ Entered("Signing") <=> (VerdictComputed /\ AllChecksPass)
    /\ pc \in {"signing", "submitting"} => Entered("Signing")
    /\ (VerdictComputed /\ ~AllChecksPass) =>
          /\ pc \notin {"signing", "submitting"}
          /\ message = <<>>
          /\ ~Has("attestation")
          /\ ~Has("signature")

C1_Witness ==
    /\ Done
    /\ Entered("Signing")
    /\ Has("attestation")
    /\ AllChecksPass

\* C3: a request that ends in the Fetching or Canonicalizing stage ends with
\* an error and without text, digest or verdict; a response that reports an
\* error never carries an attestation; a request that has ended in a stage
\* has entered no later one.
C3_FailureShortCircuits ==
    /\ (Done /\ LastStage \in {"Fetching", "Canonicalizing"}) =>
          /\ res.status \in {404, 500, 502, 504}
          /\ upstream \notin {"none", "ok"}
          /\ ~VerdictComputed
          /\ textContent = <<>>
          /\ contentHash = <<>>
    /\ (upstream \notin {"none", "ok"}) =>
          /\ Done
          /\ res.status >= 400
          /\ ~VerdictComputed
          /\ ~Entered("Evaluating")
          /\ ~Entered("Signing")
    /\ (Done /\ Entered("Signing") /\ ADMIN_SECRET_KEY = "bad"
           /\ (handler = "attest" \/ PackageConfigured)) =>
          res.status >= 500
    /\ (Done /\ (res.status >= 400 \/ Has("error"))) =>
          /\ ~Has("attestation")
          /\ ~Has("signature")

C3_Witness ==
    /\ Done
    /\ upstream = "notFound"
    /\ res.status = 404
    /\ ~VerdictComputed

\* C4 as claimed: the stages are entered in order and every request ends in
\* exactly one of Attested, Rejected or Failed; Attested only from Signing,
\* an attestation only in Attested.
C4_ThreeOutcomes ==
    /\ IsPrefix(stages, StageOrder)
    /\ Done => Outcome \in {"Attested", "Rejected", "Failed"}
    /\ (Done /\ Outcome = "Attested") => LastStage = "Signing"
    /\ Has("attestation") => (Done /\ Outcome = "Attested")

\* C4 amended: the stages are entered in order and every request ends in
\* exactly one of Attested, VerifiedLocally, Rejected or Failed;
\* VerifiedLocally (signing key or package id not configured) and Attested
\* are reached only from Signing, Rejected only from Evaluating, and an
\* attestation is returned only in Attested.
C4_FourOutcomes ==
    /\ IsPrefix(stages, StageOrder)
    /\ Done => Outcome \in {"Attested", "VerifiedLocally", "Rejected", "Failed"}
    /\ (Done /\ Outcome \in {"Attested", "VerifiedLocally"}) => LastStage = "Signing"
    /\ (Done /\ Outcome = "VerifiedLocally") =>
          (ADMIN_SECRET_KEY = "" \/ ~PackageConfigured)
    /\ (Done /\ Outcome = "Rejected") => LastStage = "Evaluating"
    /\ Has("attestation") => (Done /\ Outcome = "Attested")
    /\ pc = "idle" <=> stages = <<>> /\ res = NoResponse
    /\ pc \in {"fetching", "reading", "signing", "submitting"} => res = NoResponse

C4_Witness ==
    /\ Done
    /\ Outcome = "VerifiedLocally"
    /\ stages = StageOrder

\* C5: a verdict with a failing check ends the request at once as Rejected:
\* status 422, with the per-check map as computed and the digest computed
\* from the fetched text, which differs from the expected digest whenever the
\* digest check is the one that failed.
C5_RejectedWithComputedDigest ==
    (VerdictComputed /\ ~AllChecksPass) =>
        /\ Done
        /\ Outcome = "Rejected"
        /\ res.status = 422
        /\ DOMAIN res.body = {"error", "details", "contentHash"}
        /\ res.body.details = verificationResults
        /\ res.body.contentHash = contentHash
        /\ contentHash = ContentHash(textContent)
        /\ ~verificationResults.hashCheck =>
              JsString(res.body.contentHash) # req.expectedHash

C5_Witness ==
    /\ Done
    /\ res.status = 422
    /\ ~verificationResults.hashCheck
    /\ verificationResults.minLengthCheck

\* C6: a fetch the store answers with not-found ends in 404, a fetch that
\* times out in 504, and any other failed fetch in 500 or 502.
C6_FetchErrorStatus ==
    /\ upstream = "notFound" => (Done /\ res.status = 404)
    /\ upstream = "timeout" => (Done /\ res.status = 504)
    /\ upstream \in {"status5xx", "transport", "tooLarge"} =>
          (Done /\ res.status \in {500, 502})

C6_Witness ==
    /\ handler = "worker"
    /\ upstream = "notFound"
    /\ res.status = 404

C2_DistinctPairsDistinctMessages ==
    (/\ frame.stage = "both"
     /\ frame.msgA # NoMessage
     /\ frame.msgB # NoMessage
     /\ <<frame.a.handoutId, frame.a.blobId>> # <<frame.b.handoutId, frame.b.blobId>>)
    => frame.msgA # frame.msgB

\* C8 as claimed: a blob id with a character outside [A-Za-z0-9_-] is refused,
\* and the id fetched and signed is the id the caller sent, never empty.
C8_IdNeverAltered ==
    /\ (/\ req.blobId.t = "string"
        /\ \E i \in 1..Len(req.blobId.s) :
              req.blobId.s[i] \notin (AlnumChars \cup {"_", "-"})) =>
          (fetches = 0 /\ res.status = 400)
    /\ fetches > 0 =>
          /\ fetchedId = req.blobId.s
          /\ sanitizedBlobId = req.blobId.s
          /\ fetchedId # <<>>

\* C9 as claimed: the verdict is the conjunction of three independently
\* computed checks, and every response to a request whose verdict was
\* computed carries the per-check map.
VerdictInResponse ==
    \/ res.status = 422 /\ Has("details") /\ res.body.details = verificationResults
    \/ /\ res.status = 200
       /\ Has("verificationResults")
       /\ res.body.verificationResults = verificationResults

ChecksIndependent ==
    /\ DOMAIN verificationResults = {"minLengthCheck", "hashCheck", "contentIntegrity"}
    /\ verificationResults.minLengthCheck <=> Len(textContent) >= 10
    /\ verificationResults.hashCheck <=>
          \/ req.expectedHash.t # "string"
          \/ req.expectedHash.s = <<>>
          \/ req.expectedHash.s = contentHash
    /\ verificationResults.contentIntegrity

C10_MinLength ==
    VerdictComputed =>
        /\ verificationResults.minLengthCheck <=> Len(textContent) >= 10
        /\ req.expectedHash = Undefined =>
              /\ Len(textContent) < 10 =>
                    /\ Done
                    /\ res.status = 422
                    /\ res.body.details =
                          [minLengthCheck |-> FALSE, hashCheck |-> TRUE,
                           contentIntegrity |-> TRUE]
              /\ Len(textContent) >= 10 =>
                    /\ AllChecksPass
                    /\ Entered("Signing")
                    /\ Done => res.status # 422

C10_Witness ==
    /\ Done
    /\ Len(textContent) = 3
    /\ req.expectedHash = Undefined
    /\ res.status = 422
    /\ ~verificationResults.minLengthCheck

\* C11 as claimed: the digest check is true when the caller supplied no
\* expected digest, and otherwise true exactly when the supplied value, the
\* empty string included, equals the computed digest.
C11_DigestMatch ==
    VerdictComputed =>
        (verificationResults.hashCheck <=>
            \/ req.expectedHash = Undefined
            \/ req.expectedHash = JsString(contentHash))

\* C12: with no signing key configured, a request whose checks all pass is
\* answered 200 verified_locally with the computed digest and the full
\* verdict and without an attestation, never with an error.
C12_MissingKeyVerifiedLocally ==
    (VerdictComputed /\ AllChecksPass /\ ADMIN_SECRET_KEY = "") =>
        /\ Done
        /\ res.status = 200
        /\ DOMAIN res.body = {"status", "message", "contentHash",
                              "verificationResults"}
        /\ res.body.status = "verified_locally"
        /\ res.body.contentHash = ContentHash(textContent)
        /\ res.body.verificationResults = verificationResults
        /\ DOMAIN res.body.verificationResults =
              {"minLengthCheck", "hashCheck", "contentIntegrity"}

C12_Witness ==
    /\ VerdictComputed
    /\ AllChecksPass
    /\ ADMIN_SECRET_KEY = ""
    /\ Done
    /\ res.status = 200
    /\ req.expectedHash = JsString(contentHash)

\* The transaction was submitted and did not succeed.
SubmissionFailed ==
    /\ Done
    /\ handler # "attest"
    /\ LastStage = "Signing"
    /\ ADMIN_SECRET_KEY \notin {"", "bad"}
    /\ PackageConfigured
    /\ res.status # 200

\* C13 as claimed: a request whose verification passed and whose on-chain
\* submission failed is answered with a failure that is not the verification
\* failure and that carries the attestation.
C13_SubmissionFailureKeepsAttestation ==
    SubmissionFailed =>
        /\ res.status # 422
        /\ Has("attestation")

\* C14 as claimed: a body over the ceiling ends the request with an error;
\* it is never read into the text that is evaluated, and nothing is attested
\* for it.
C14_ByteCeiling ==
    /\ Len(textContent) <= MaxContentLen
    /\ upstream = "tooLarge" =>
          /\ Done
          /\ res.status >= 400
          /\ ~VerdictComputed
          /\ ~Has("attestation")

\* C16: a request issues at most one fetch, enters every stage at most once
\* and in order, and once it is answered (a failed stage answers it at once)
\* nothing of it runs again: the next step is the next request.
C16_NoRetry ==
    [][/\ fetches' <= 1
       /\ fetches' # fetches => (fetches = 0 \/ pc' = "idle")
       /\ stages' # stages =>
             \/ pc' = "idle" /\ stages' = <<>>
             \/ /\ IsPrefix(stages, stages')
                /\ IsPrefix(stages', StageOrder)
       /\ (upstream' \notin {"none", "ok"} \/ res' # NoResponse) => pc' \in {"done"}
       /\ Done => (pc' = "idle" /\ res' = NoResponse /\ fetches' = 0)]_vars

C16_Witness ==
    /\ Done
    /\ fetches = 1
    /\ upstream = "timeout"
    /\ stages = <<"Fetching", "Canonicalizing">>
    /\ res.status = 504

\* C20 as claimed: every attestation in a response carries the signature,
\* the raw public key of the signing key, and the handout id and blob id
\* that were signed, and the signature is by that key over the message
\* framed from those ids.
C20_AttestationSelfContained ==
    (Done /\ Has("attestation")) =>
        LET a == res.body.attestation
        IN  /\ {"signature", "publicKey", "handoutId", "blobId"} \subseteq DOMAIN a
            /\ a.publicKey = PublicKey(ADMIN_SECRET_KEY)
            /\ a.signature = Sign(ADMIN_SECRET_KEY,
                                  SignedMessage(a.handoutId, a.blobId))

\* C15 as claimed: every request that was received is eventually answered;
\* no request stays in a stage forever.
C15_EveryRequestEnds == (pc # "idle") ~> Done

\* C18 as claimed: two evaluations of the same fetched body with the same
\* expected digest, by any two instances, give the same digest, the same
\* per-check results and the same verdict.
C18_SameInputsSameVerdict ==
    det.stage = "both" => det.outA = det.outB

StringFields == {"error", "status", "message", "digest"}

RanAlone(s) ==
    LET c    == conc[s]
        text == CanonicalText(handler, c.body)
        d    == ContentHash(text)
        v    == VerificationResults(text, c.req.expectedHash)
    IN  IF MissingOrInvalid(c.req.blobId) \/ MissingOrInvalid(c.req.handoutId)
        THEN c.res.status = 400 /\ c.fetched = "none"
        ELSE IF c.fetched = "notFound" THEN c.res.status = 404
        ELSE IF c.fetched = "timeout" THEN c.res.status = 504
        ELSE /\ c.fetched = "ok"
             /\ IF ~IsVerified(v)
                THEN /\ c.res.status = 422
                     /\ c.res.body.contentHash = d
                     /\ c.res.body.details = v
                ELSE IF c.rpc \in {"failure", "threw"}
                THEN c.res.status \in {500, 504}
                ELSE /\ c.res.status = 200
                     /\ c.res.body.contentHash = d
                     /\ c.res.body.verificationResults = v
                     /\ c.res.body.status =
                           IF ADMIN_SECRET_KEY = "" THEN "verified_locally"
                           ELSE IF handler = "attest" THEN "attestation_ready"
                           ELSE "verified_onchain"
                     /\ ("attestation" \in DOMAIN c.res.body
                           /\ "blobId" \in DOMAIN c.res.body.attestation) =>
                              /\ c.res.body.attestation.blobId = c.req.blobId.s
                              /\ c.res.body.attestation.handoutId =
                                    c.req.handoutId.s

\* C17 as claimed: for every interleaving, every request is answered as if
\* it had run alone.
C17_EveryRequestRunsAsAlone ==
    \A s \in Slots : conc[s].pc = "done" => RanAlone(s)

\* C17 amended: the requests share the configuration, which is only read,
\* and in the worker the rate limiter's count per address: the worker
\* answers 429 once RATE_LIMIT_MAX_REQUESTS requests of the address were
\* let through in the window.  For every interleaving, every request that
\* is let through is answered as if it had run alone, and the constants of
\* an invocation that waits for its signature or its transaction are its
\* own.
C17_AdmittedRunsAsAlone ==
    /\ \A s \in Slots :
          /\ (conc[s].pc = "done" /\ conc[s].res.status # 429) => RanAlone(s)
          /\ (conc[s].pc = "done" /\ conc[s].res.status = 429) =>
                /\ handler = "worker"
                /\ \E ip \in DOMAIN rateLimitMap :
                      rateLimitMap[ip].count = RATE_LIMIT_MAX_REQUESTS
          /\ conc[s].pc \in {"signing", "submitting"} =>
                /\ scope[s].contentHash =
                      ContentHash(CanonicalText(handler, conc[s].body))
                /\ scope[s].verificationResults =
                      VerificationResults(CanonicalText(handler, conc[s].body),
                                          conc[s].req.expectedHash)
    /\ handler # "worker" => rateLimitMap = <<>>

C17_Witness ==
    \E s \in Slots, o \in Slots :
        /\ s # o
        /\ conc[s].pc = "done"
        /\ conc[s].res.status = 200
        /\ conc[o].pc \in {"signing", "submitting"}
        /\ conc[o].req.expectedHash # conc[s].req.expectedHash
        /\ RanAlone(s)

\* C21 as claimed: a status request for an existing handout is answered with
\* its recorded verified state, for an id under which nothing exists with
\* 404, and for a malformed id with 400, never with a server error.
C21_StatusByKindOfId ==
    st.pc = "done" =>
        /\ ~IsValidSuiObjectId(st.id) => st.res.status = 400
        /\ st.outcome = "none" /\ IsValidSuiObjectId(st.id) => st.res.status = 404
        /\ st.outcome \in {"handoutVerified", "handoutUnverified"} =>
              /\ st.res.status = 200
              /\ st.res.body.verified = (st.objects[st.id] = "handoutVerified")

\* The field of an error response that a program can compare: the fixed
\* text of status or error (details is the message of the exception).
KindField(r) ==
    IF "status" \in DOMAIN r.body THEN r.body.status ELSE r.body.error

\* What went wrong in an exchange that ended with the stages e.stages.
ErrorKind(e) ==
    IF MissingOrInvalid(e.req.blobId) \/ MissingOrInvalid(e.req.handoutId)
    THEN "client error"
    ELSE IF e.upstream = "notFound" THEN "not found"
    ELSE IF e.upstream = "timeout" THEN "timeout"
    ELSE IF e.upstream # "ok" THEN "other upstream failure"
    ELSE IF e.res.status = 422 THEN "policy rejection"
    ELSE IF ADMIN_SECRET_KEY = "bad" THEN "signing failure"
    ELSE "submission failure"

Current ==
    [req |-> req, upstream |-> upstream, stages |-> stages,
     textContent |-> textContent, res |-> res]

\* C22 as claimed: two error responses of the verify endpoint with the same
\* status code and the same kind field report the same kind of error.
C22_KindsDistinguishable ==
    (/\ Done
     /\ sent # <<>>
     /\ res.status >= 400
     /\ sent[1].res.status >= 400
     /\ res.status = sent[1].res.status
     /\ KindField(res) = KindField(sent[1].res))
    => ErrorKind(Current) = ErrorKind(sent[1])

C24_NoServiceWithoutKey ==
    /\ up = "listening" => ADMIN_SECRET_KEY # ""
    /\ pc # "idle" => ADMIN_SECRET_KEY # ""

\* C25 as claimed: a request is answered 404 or 504 only when its fetch of
\* the blob failed; a request whose fetch succeeded is never answered
\* "Walrus fetch timeout" or "Content not found in Walrus".
C25_FetchStatusOnlyFromFetch ==
    (Done /\ (\/ res.status \in {404, 504}
              \/ (Has("error") /\ res.body.error \in
                     {"Walrus fetch timeout", "Content not found in Walrus"}))) =>
        /\ upstream \in {"notFound", "timeout"}
        /\ LastStage \in {"Fetching", "Canonicalizing"}

\* The requests of an address that were let through in the window of its
\* record: from startTime to startTime + RATE_LIMIT_WINDOW_MS.
AdmittedInWindow(ip) ==
    Len(SelectSeq(rl.admitted[ip],
                  LAMBDA at : /\ at >= rateLimitMap[ip].startTime
                              /\ at <= rateLimitMap[ip].startTime
                                          + RATE_LIMIT_WINDOW_MS))

\* A step in which a request of address ip passed through the limiter.
Asked(ip) == now' = now /\ rl' # rl /\ rl'.last.ip = ip

\* C26: for each address at most RATE_LIMIT_MAX_REQUESTS requests are let
\* through in the window of RATE_LIMIT_WINDOW_MS that starts at the
\* record's startTime, and the record's count is their number; a further
\* request in the window is answered 429 and leaves the map as it was; the
\* first request more than RATE_LIMIT_WINDOW_MS after startTime is let
\* through and starts a record with count 1 at its own time.
C26_WindowOfThirty ==
    /\ [](\A ip \in DOMAIN rateLimitMap :
            /\ rateLimitMap[ip].count \in 1..RATE_LIMIT_MAX_REQUESTS
            /\ rateLimitMap[ip].startTime <= now
            /\ AdmittedInWindow(ip) <= RATE_LIMIT_MAX_REQUESTS
            /\ now - rateLimitMap[ip].startTime <= RATE_LIMIT_WINDOW_MS =>
                  rateLimitMap[ip].count = AdmittedInWindow(ip))
    /\ [][\A ip \in IPs : Asked(ip) =>
            IF ip \notin DOMAIN rateLimitMap
            THEN /\ rl'.last.next
                 /\ rateLimitMap'[ip] = [count |-> 1, startTime |-> now]
            ELSE IF now - rateLimitMap[ip].startTime > RATE_LIMIT_WINDOW_MS
            THEN /\ rl'.last.next
                 /\ rateLimitMap'[ip] = [count |-> 1, startTime |-> now]
            ELSE IF rateLimitMap[ip].count = RATE_LIMIT_MAX_REQUESTS
            THEN /\ ~rl'.last.next
                 /\ rl'.last.status = 429
                 /\ rateLimitMap' = rateLimitMap
            ELSE /\ rl'.last.next
                 /\ rateLimitMap'[ip] =
                       [count |-> rateLimitMap[ip].count + 1,
                        startTime |-> rateLimitMap[ip].startTime]]_vars

C26_Witness ==
    /\ rl # NotInUse
    /\ ~rl.last.next
    /\ \E ip \in DOMAIN rateLimitMap :
          /\ rateLimitMap[ip].count = RATE_LIMIT_MAX_REQUESTS
          /\ now = rateLimitMap[ip].startTime + RATE_LIMIT_WINDOW_MS
          /\ rateLimitMap[ip].startTime > 0

\* A step in which handout h received a reward.
Rewarded(h) ==
    /\ h \in DOMAIN chain.rewards
    /\ chain'.rewards[h] > chain.rewards[h]

\* C27: claim_reward pays only for a handout whose verified flag is true and
\* from a pool that holds at least reward_amount, and no handout ever
\* receives more than one reward.
C27_OneRewardPerHandout ==
    /\ [](chain # NotInUse =>
            \A h \in DOMAIN chain.rewards : chain.rewards[h] <= 1)
    /\ [][\A h \in 1..MaxHandouts : Rewarded(h) =>
            /\ chain.handouts[h].verified
            /\ \E c \in DOMAIN chain.pools :
                  /\ chain.pools[c] >= chain.reward_amount
                  /\ chain'.pools[c] = chain.pools[c] - chain.reward_amount]_vars

RECURSIVE SumOver(_, _)
SumOver(f, S) ==
    IF S = {} THEN 0
    ELSE LET x == CHOOSE y \in S : TRUE IN f[x] + SumOver(f, S \ {x})

\* A step in which a claim_reward transaction aborted.
ClaimAborted ==
    /\ chain' # chain
    /\ chain'.last.fn = "claim_reward"
    /\ chain'.last.aborted

\* C28: every pool's balance is what was sponsored into it less the rewards
\* paid from it and is never negative, total_rewards_paid is the sum of
\* the rewards paid, and a claim_reward that aborts changes neither the
\* pools nor the totals.
C28_PoolsBalance ==
    /\ [](chain # NotInUse =>
            /\ \A c \in CourseCodes :
                  LET balance == IF c \in DOMAIN chain.pools
                                 THEN chain.pools[c] ELSE 0
                  IN  /\ balance = chain.sponsored[c] - chain.paid[c]
                      /\ balance >= 0
            /\ chain.total_rewards_paid = SumOver(chain.paid, CourseCodes))
    /\ [][ClaimAborted =>
            /\ chain'.pools = chain.pools
            /\ chain'.total_rewards_paid = chain.total_rewards_paid
            /\ chain'.paid = chain.paid
            /\ chain'.sponsored = chain.sponsored]_vars

C28_Witness ==
    /\ chain # NotInUse
    /\ chain.last = CallOf("claim_reward", "", TRUE, EInsufficientBalance)
    /\ chain.total_rewards_paid > DEFAULT_REWARD_AMOUNT
    /\ \E c \in DOMAIN chain.pools :
          /\ chain.paid[c] > 0
          /\ chain.pools[c] > 0
          /\ chain.pools[c] < chain.reward_amount

\* A step in which address a called apply_for_course_rep.
Applied(a) ==
    /\ registry' # registry
    /\ registry'.last.fn = "apply_for_course_rep"
    /\ registry'.last.who = a

\* C29: no address is both in pending_applications and in verified_reps, an
\* address is in pending_applications exactly when an application is
\* stored for it, and apply_for_course_rep aborts with EAlreadyRegistered
\* for an address that is pending or already a verified rep (and for no
\* other address).
C29_RegistryConsistent ==
    /\ [](registry # NotInUse =>
            /\ DOMAIN registry.pending_applications
                  \cap DOMAIN registry.verified_reps = {}
            /\ DOMAIN registry.pending_applications
                  = DOMAIN registry.applications
            /\ \A a \in DOMAIN registry.applications :
                  registry.applications[a].applicant = a)
    /\ [][\A a \in Addresses : Applied(a) =>
            IF a \in DOMAIN registry.pending_applications \/ a \in DOMAIN registry.verified_reps
            THEN /\ registry'.last.aborted
                 /\ registry'.last.code = EAlreadyRegistered
                 /\ registry'.pending_applications = registry.pending_applications
                 /\ registry'.verified_reps = registry.verified_reps
                 /\ registry'.applications = registry.applications
            ELSE /\ ~registry'.last.aborted
                 /\ a \in DOMAIN registry'.pending_applications]_vars

C29_Witness ==
    /\ registry # NotInUse
    /\ registry.last.fn = "apply_for_course_rep"
    /\ registry.last.aborted
    /\ registry.last.code = EAlreadyRegistered
    /\ registry.last.who \in DOMAIN registry.verified_reps
    /\ registry.pending_applications # <<>>

\* C30: whenever completeZkLoginCallback completes for a token, the salt it
\* used is generateUserSalt of the token's subject, and so is the address
\* it derived, whatever was logged in before in the same tab.
C30_SaltOfSubject ==
    (zk # NotInUse /\ zk.last.outcome = "ok") =>
        /\ zk.last.userSalt = generateUserSalt(zk.last.sub)
        /\ zk.last.zkLoginAddress.salt = generateUserSalt(zk.last.sub)

====
